---- MODULE Spec2Model ----
(***************************************************************************)
(* A model of devbot: the framework detector and structure auditor of      *)
(* core/analyzers.py, the repository commands of cogs/analysis_cog.py that *)
(* drive them, and the heuristic language analyzers.                       *)
(*                                                                         *)
(* Text is modelled as sequences of one-character strings, so that         *)
(* lower-casing, substring search, basename and splitext are computed      *)
(* as Python computes them.                                                *)
(***************************************************************************)
EXTENDS Integers, Sequences, FiniteSets, TLC

VARIABLES
    repo,            \* the repository snapshot: the set of Pool indices present
    bad,             \* entries the provider fails on during this invocation
    op,              \* the operation that produced the current results
    contents,        \* the flattened content list handed to the core
    framework,       \* result of detect_framework ("None" for None)
    structure,       \* result of analyze_structure
    analyzed_files,  \* analyze: the analyzed_files list
    total_issues,    \* analyze: the total_issues counter
    sent,            \* messages sent with ctx.send, in order
    source,          \* the text handed to a language analyzer
    finding,         \* the analysis dictionary the analyzer returned
    tasks,           \* the command invocations known to the event loop
    loop,            \* the task the event loop thread runs, and its blocking call
    attachment,      \* ctx.message.attachments[0] of an upload, or none
    GROQ_API_KEY,    \* whether the completion provider's key is configured
    github_client,   \* whether the repository provider's client was created
    requests,        \* the requests issued to the providers, in order
    reply            \* what the last provider function returned to its caller

\* the state of the provider functions
provider == <<GROQ_API_KEY, github_client, requests, reply>>

vars == <<repo, bad, op, contents, framework, structure, analyzed_files,
          total_issues, sent, source, finding, tasks, loop, attachment,
          provider>>

-----------------------------------------------------------------------------
(* Bounds of the model *)

\* largest number of entries (files and directories) in a repository snapshot
MaxRepo == 4

\* largest number of entries the provider fails on in one invocation
MaxBad == 1

\* largest number of command invocations in flight
MaxTasks == 2

Tasks == 1..MaxTasks

\* no command was invoked; the event loop thread runs no task
NoTasks == [t \in Tasks |-> [command |-> "none", pc |-> 0, state |-> "idle"]]

IdleLoop == [task |-> 0, call |-> "none"]

\* a message without an attachment
NoAttachment == [filename |-> <<>>, size |-> 0, decodes |-> TRUE]

\* no provider function has returned yet
NoReply == [kind |-> "none"]

-----------------------------------------------------------------------------
(* Python string primitives over character sequences *)

UpperToLower ==
    ("A" :> "a") @@ ("B" :> "b") @@ ("C" :> "c") @@ ("D" :> "d") @@
    ("E" :> "e") @@ ("F" :> "f") @@ ("G" :> "g") @@ ("H" :> "h") @@
    ("I" :> "i") @@ ("J" :> "j") @@ ("K" :> "k") @@ ("L" :> "l") @@
    ("M" :> "m") @@ ("N" :> "n") @@ ("O" :> "o") @@ ("P" :> "p") @@
    ("Q" :> "q") @@ ("R" :> "r") @@ ("S" :> "s") @@ ("T" :> "t") @@
    ("U" :> "u") @@ ("V" :> "v") @@ ("W" :> "w") @@ ("X" :> "x") @@
    ("Y" :> "y") @@ ("Z" :> "z")

\* str.lower()
Lower(s) ==
    [i \in 1..Len(s) |->
        IF s[i] \in DOMAIN UpperToLower THEN UpperToLower[s[i]] ELSE s[i]]

\* pat in s
Contains(s, pat) ==
    \E i \in 0..(Len(s) - Len(pat)) : SubSeq(s, i + 1, i + Len(pat)) = pat

\* s.endswith(c) for a one-character c
EndsWith(s, c) == Len(s) > 0 /\ s[Len(s)] = c

\* s.rfind(c), 1-based, 0 when c does not occur
RFind(s, c) ==
    IF \E i \in 1..Len(s) : s[i] = c
    THEN CHOOSE i \in 1..Len(s) :
            s[i] = c /\ \A j \in (i + 1)..Len(s) : s[j] # c
    ELSE 0

\* os.path.basename(p)
basename(p) == SubSeq(p, RFind(p, "/") + 1, Len(p))

\* os.path.splitext(p)[1]: the extension starts at the last dot of the base
\* name, unless only dots precede it there
splitext(p) ==
    LET sepIndex == RFind(p, "/")
        dotIndex == RFind(p, ".")
    IN  IF dotIndex > sepIndex
           /\ \E k \in (sepIndex + 1)..(dotIndex - 1) : p[k] # "."
        THEN SubSeq(p, dotIndex, Len(p))
        ELSE <<>>

\* the elements of a sequence
Range(s) == {s[i] : i \in 1..Len(s)}

-----------------------------------------------------------------------------
(* ProjectStructureAnalyzer: configuration tables, in declaration order *)

framework_patterns ==
  <<
    [framework |-> "React", patterns |-> <<
        <<"p","a","c","k","a","g","e",".","j","s","o","n">>,
        <<"s","r","c","/","A","p","p",".","j","s">>,
        <<"s","r","c","/","i","n","d","e","x",".","j","s">>,
        <<"p","u","b","l","i","c","/","i","n","d","e","x",".","h","t","m","l">> >>],
    [framework |-> "Vue", patterns |-> <<
        <<"p","a","c","k","a","g","e",".","j","s","o","n">>,
        <<"s","r","c","/","m","a","i","n",".","j","s">>,
        <<"s","r","c","/","A","p","p",".","v","u","e">> >>],
    [framework |-> "Angular", patterns |-> <<
        <<"a","n","g","u","l","a","r",".","j","s","o","n">>,
        <<"s","r","c","/","m","a","i","n",".","t","s">>,
        <<"s","r","c","/","a","p","p","/","a","p","p",".","m","o","d","u","l","e",".","t","s">>,
        <<"s","r","c","/","i","n","d","e","x",".","h","t","m","l">>,
        <<"s","r","c","/","a","p","p","/">> >>],
    [framework |-> "Django", patterns |-> <<
        <<"m","a","n","a","g","e",".","p","y">>,
        <<"s","e","t","t","i","n","g","s",".","p","y">>,
        <<"u","r","l","s",".","p","y">>,
        <<"w","s","g","i",".","p","y">> >>],
    [framework |-> "Flask", patterns |-> <<
        <<"a","p","p",".","p","y">>,
        <<"r","e","q","u","i","r","e","m","e","n","t","s",".","t","x","t">>,
        <<"t","e","m","p","l","a","t","e","s","/">> >>],
    [framework |-> "Spring Boot", patterns |-> <<
        <<"p","o","m",".","x","m","l">>,
        <<"s","r","c","/","m","a","i","n","/","j","a","v","a","/">>,
        <<"a","p","p","l","i","c","a","t","i","o","n",".","p","r","o","p","e","r","t","i","e","s">> >>],
    [framework |-> "Express.js", patterns |-> <<
        <<"p","a","c","k","a","g","e",".","j","s","o","n">>,
        <<"a","p","p",".","j","s">>,
        <<"s","e","r","v","e","r",".","j","s">> >>],
    [framework |-> "Next.js", patterns |-> <<
        <<"n","e","x","t",".","c","o","n","f","i","g",".","j","s">>,
        <<"p","a","g","e","s","/">>,
        <<"p","a","c","k","a","g","e",".","j","s","o","n">> >>],
    [framework |-> "Laravel", patterns |-> <<
        <<"c","o","m","p","o","s","e","r",".","j","s","o","n">>,
        <<"a","r","t","i","s","a","n">>,
        <<"a","p","p","/","H","t","t","p","/","C","o","n","t","r","o","l","l","e","r","s","/">> >>],
    [framework |-> "Rails", patterns |-> <<
        <<"G","e","m","f","i","l","e">>,
        <<"c","o","n","f","i","g","/","r","o","u","t","e","s",".","r","b">>,
        <<"a","p","p","/","c","o","n","t","r","o","l","l","e","r","s","/">> >>],
    [framework |-> "FastAPI", patterns |-> <<
        <<"m","a","i","n",".","p","y">>,
        <<"r","e","q","u","i","r","e","m","e","n","t","s",".","t","x","t">>,
        <<"a","p","p","/">> >>],
    [framework |-> "Nest.js", patterns |-> <<
        <<"n","e","s","t","-","c","l","i",".","j","s","o","n">>,
        <<"s","r","c","/","m","a","i","n",".","t","s">>,
        <<"s","r","c","/","a","p","p",".","m","o","d","u","l","e",".","t","s">> >>]
  >>

structure_recommendations ==
  <<
    [framework |-> "React", recommended |-> <<
        <<"s","r","c","/","c","o","m","p","o","n","e","n","t","s","/">>,
        <<"s","r","c","/","h","o","o","k","s","/">>,
        <<"s","r","c","/","u","t","i","l","s","/">>,
        <<"s","r","c","/","s","e","r","v","i","c","e","s","/">>,
        <<"s","r","c","/","a","s","s","e","t","s","/">> >>],
    [framework |-> "Django", recommended |-> <<
        <<"a","p","p","s","/">>,
        <<"s","t","a","t","i","c","/">>,
        <<"t","e","m","p","l","a","t","e","s","/">>,
        <<"m","e","d","i","a","/">>,
        <<"r","e","q","u","i","r","e","m","e","n","t","s",".","t","x","t">> >>],
    [framework |-> "Spring Boot", recommended |-> <<
        <<"s","r","c","/","m","a","i","n","/","j","a","v","a","/","c","o","m","/","c","o","m","p","a","n","y","/","a","p","p","/">>,
        <<"s","r","c","/","m","a","i","n","/","r","e","s","o","u","r","c","e","s","/">>,
        <<"s","r","c","/","t","e","s","t","/">> >>],
    [framework |-> "Express.js", recommended |-> <<
        <<"r","o","u","t","e","s","/">>,
        <<"m","i","d","d","l","e","w","a","r","e","/">>,
        <<"m","o","d","e","l","s","/">>,
        <<"c","o","n","t","r","o","l","l","e","r","s","/">>,
        <<"c","o","n","f","i","g","/">> >>],
    [framework |-> "Angular", recommended |-> <<
        <<"s","r","c","/","a","p","p","/","c","o","m","p","o","n","e","n","t","s","/">>,
        <<"s","r","c","/","a","p","p","/","s","e","r","v","i","c","e","s","/">>,
        <<"s","r","c","/","a","p","p","/","m","o","d","e","l","s","/">>,
        <<"s","r","c","/","a","p","p","/","s","h","a","r","e","d","/">>,
        <<"s","r","c","/","e","n","v","i","r","o","n","m","e","n","t","s","/">> >>]
  >>

FrameworkNames == {framework_patterns[i].framework : i \in DOMAIN framework_patterns}

\* framework in self.structure_recommendations
HasRecommendations(fw) ==
    \E i \in DOMAIN structure_recommendations :
        structure_recommendations[i].framework = fw

\* self.structure_recommendations[framework]['recommended']
Recommended(fw) ==
    LET i == CHOOSE k \in DOMAIN structure_recommendations :
                structure_recommendations[k].framework = fw
    IN  structure_recommendations[i].recommended

-----------------------------------------------------------------------------
(* ProjectStructureAnalyzer.detect_framework *)

\* the set comprehension of line 57: directories get a trailing separator
all_paths(repo_contents) ==
    {IF c.type = "file" THEN Lower(c.path) ELSE Lower(c.path) \o <<"/">> :
        c \in Range(repo_contents)}

\* the pattern lower-cased and nothing more
normalized_patternMutant(pattern) == Lower(pattern)

\* lines 63-65: a pattern with no trailing separator and no dot in its base
\* name is taken for a directory name
normalized_pattern(pattern) ==
    LET p == Lower(pattern)
    IN  IF ~EndsWith(p, "/") /\ ~Contains(basename(p), <<".">>)
        THEN p \o <<"/">>
        ELSE p

\* line 67
PatternMatches(pattern, paths) ==
    \E p \in paths : Contains(p, normalized_pattern(pattern))

\* lines 60-68: one increment per pattern of the framework that matches
matches(patterns, paths) ==
    Cardinality({i \in DOMAIN patterns : PatternMatches(patterns[i], paths)})

\* line 70: the threshold
MinMatchesMutant == 2 - 1

MinMatches == 2

\* line 72: Angular needs angular.json itself among the paths
AngularSkippedMutant(fw, paths) == FALSE

AngularSkipped(fw, paths) ==
    fw = "Angular"
    /\ <<"a","n","g","u","l","a","r",".","j","s","o","n">> \notin paths

\* the loop of lines 59-76 from table position i on
RECURSIVE detect_from(_, _)
detect_from(i, paths) ==
    IF i > Len(framework_patterns)
    THEN "None"
    ELSE LET fw == framework_patterns[i].framework
         IN  IF matches(framework_patterns[i].patterns, paths) >= MinMatches
                /\ ~AngularSkipped(fw, paths)
             THEN fw
             ELSE detect_from(i + 1, paths)

detect_framework(repo_contents) == detect_from(1, all_paths(repo_contents))

-----------------------------------------------------------------------------
(* ProjectStructureAnalyzer.analyze_structure *)

SelectType(s, t) == SelectSeq(s, LAMBDA c : c.type = t)

PathsOf(s) == [i \in DOMAIN s |-> s[i].path]

\* lines 100-104
ReadmeMissingMutant(all_file_paths) ==
    <<"R","E","A","D","M","E",".","m","d">> \notin Range(all_file_paths)

ReadmeMissing(all_file_paths) ==
    <<"r","e","a","d","m","e",".","m","d">> \notin Range(all_file_paths)

GitignoreMissing(all_file_paths) ==
    <<".","g","i","t","i","g","n","o","r","e">> \notin Range(all_file_paths)

\* line 112
RecommendedMissingMutant(recommended_path, paths) ==
    \E p \in Range(paths) : Contains(p, Lower(recommended_path))

RecommendedMissing(recommended_path, paths) ==
    ~\E p \in Range(paths) : Contains(p, Lower(recommended_path))

\* lines 106-113; a recommendation text names the path and the framework
RecommendationsFor(fw, paths) ==
    IF fw # "None" /\ HasRecommendations(fw)
    THEN LET rec == Recommended(fw)
             missing == SelectSeq(rec, LAMBDA r : RecommendedMissing(r, paths))
         IN  [i \in DOMAIN missing |-> [path |-> missing[i], framework |-> fw]]
    ELSE <<>>

analyze_structure(repo_contents, fw) ==
    LET files == SelectType(repo_contents, "file")
        dirs  == SelectSeq(repo_contents, LAMBDA c : c.type # "file")
        all_file_paths == [i \in DOMAIN files |-> Lower(files[i].path)]
        all_dir_paths  == [i \in DOMAIN dirs |-> Lower(dirs[i].path)]
    IN  [framework       |-> fw,
         files           |-> PathsOf(files),
         directories     |-> PathsOf(dirs),
         issues          |->
            (IF ReadmeMissing(all_file_paths)
             THEN <<"Missing README.md file">> ELSE <<>>)
            \o (IF GitignoreMissing(all_file_paths)
                THEN <<"Missing .gitignore file">> ELSE <<>>),
         recommendations |->
            RecommendationsFor(fw, all_file_paths \o all_dir_paths)]

-----------------------------------------------------------------------------
(* The repository content provider: a snapshot is a set of entries of Pool, *)
(* each with the name, path and type the provider reports; a directory      *)
(* lists the entries whose parent it is, in Pool order.                     *)

Pool ==
  <<
    [name |-> <<".","g","i","t","i","g","n","o","r","e">>,
     path |-> <<".","g","i","t","i","g","n","o","r","e">>,
     type |-> "file", parent |-> <<>>],
    [name |-> <<"M","a","i","n",".","j","a","v","a">>,
     path |-> <<"M","a","i","n",".","j","a","v","a">>,
     type |-> "file", parent |-> <<>>],
    [name |-> <<"R","E","A","D","M","E",".","m","d">>,
     path |-> <<"R","E","A","D","M","E",".","m","d">>,
     type |-> "file", parent |-> <<>>],
    [name |-> <<"a","n","g","u","l","a","r",".","j","s","o","n">>,
     path |-> <<"a","n","g","u","l","a","r",".","j","s","o","n">>,
     type |-> "file", parent |-> <<>>],
    [name |-> <<"a","p","p",".","p","y">>,
     path |-> <<"a","p","p",".","p","y">>,
     type |-> "file", parent |-> <<>>],
    [name |-> <<"n","e","s","t","-","c","l","i",".","j","s","o","n">>,
     path |-> <<"n","e","s","t","-","c","l","i",".","j","s","o","n">>,
     type |-> "file", parent |-> <<>>],
    [name |-> <<"p","a","c","k","a","g","e",".","j","s","o","n">>,
     path |-> <<"p","a","c","k","a","g","e",".","j","s","o","n">>,
     type |-> "file", parent |-> <<>>],
    [name |-> <<"r","e","a","d","m","e",".","m","d">>,
     path |-> <<"r","e","a","d","m","e",".","m","d">>,
     type |-> "dir", parent |-> <<>>],
    [name |-> <<"x",".","p","y">>,
     path |-> <<"r","e","a","d","m","e",".","m","d","/","x",".","p","y">>,
     type |-> "file", parent |-> <<"r","e","a","d","m","e",".","m","d">>],
    [name |-> <<"r","e","q","u","i","r","e","m","e","n","t","s",".","t","x","t">>,
     path |-> <<"r","e","q","u","i","r","e","m","e","n","t","s",".","t","x","t">>,
     type |-> "file", parent |-> <<>>],
    [name |-> <<"s","e","r","v","e","r",".","j","s">>,
     path |-> <<"s","e","r","v","e","r",".","j","s">>,
     type |-> "file", parent |-> <<>>],
    [name |-> <<"s","r","c">>,
     path |-> <<"s","r","c">>,
     type |-> "dir", parent |-> <<>>],
    [name |-> <<"A","p","p",".","j","s">>,
     path |-> <<"s","r","c","/","A","p","p",".","j","s">>,
     type |-> "file", parent |-> <<"s","r","c">>],
    [name |-> <<"a","p","p",".","m","o","d","u","l","e",".","t","s">>,
     path |-> <<"s","r","c","/","a","p","p",".","m","o","d","u","l","e",".","t","s">>,
     type |-> "file", parent |-> <<"s","r","c">>],
    [name |-> <<"i","n","d","e","x",".","h","t","m","l">>,
     path |-> <<"s","r","c","/","i","n","d","e","x",".","h","t","m","l">>,
     type |-> "file", parent |-> <<"s","r","c">>],
    [name |-> <<"m","a","i","n",".","t","s">>,
     path |-> <<"s","r","c","/","m","a","i","n",".","t","s">>,
     type |-> "file", parent |-> <<"s","r","c">>],
    [name |-> <<"x",".","p","y">>,
     path |-> <<"x",".","p","y">>,
     type |-> "file", parent |-> <<>>]
  >>


Entries == DOMAIN Pool

WellFormed(r) ==
    /\ \A i \in r : Pool[i].parent # <<>> =>
            \E j \in r : Pool[j].type = "dir" /\ Pool[j].path = Pool[i].parent
    /\ \A j \in r : Pool[j].type = "dir" =>
            \E i \in r : Pool[i].parent = Pool[j].path

Repos == {r \in SUBSET Entries : Cardinality(r) <= MaxRepo /\ WellFormed(r)}

\* repo.get_contents(path, ref=branch): one level of the tree
get_contents(r, path) ==
    SelectSeq([i \in DOMAIN Pool |-> i],
              LAMBDA i : i \in r /\ Pool[i].parent = path)

\* flatten_contents that gives up the listing it is in at a directory whose
\* listing fails
RECURSIVE flatten_analyzeMutant(_, _, _)
flatten_analyzeMutant(contents_list, r, b) ==
    IF contents_list = <<>>
    THEN <<>>
    ELSE LET i == Head(contents_list)
         IN  IF Pool[i].type = "dir"
             THEN IF i \in b
                  THEN <<>>
                  ELSE flatten_analyzeMutant(get_contents(r, Pool[i].path), r, b)
                       \o flatten_analyzeMutant(Tail(contents_list), r, b)
             ELSE <<Pool[i]>> \o flatten_analyzeMutant(Tail(contents_list), r, b)

\* flatten_contents of the analyze command: files only; a directory whose
\* listing fails is skipped
RECURSIVE flatten_analyze(_, _, _)
flatten_analyze(contents_list, r, b) ==
    IF contents_list = <<>>
    THEN <<>>
    ELSE LET i == Head(contents_list)
             here == IF Pool[i].type = "dir"
                     THEN IF i \in b
                          THEN <<>>
                          ELSE flatten_analyze(get_contents(r, Pool[i].path), r, b)
                     ELSE <<Pool[i]>>
         IN  here \o flatten_analyze(Tail(contents_list), r, b)

\* flatten_contents of the structure command: a listed directory is itself
\* appended before its contents
RECURSIVE flatten_structure(_, _, _)
flatten_structure(contents_list, r, b) ==
    IF contents_list = <<>>
    THEN <<>>
    ELSE LET i == Head(contents_list)
             here == IF Pool[i].type = "dir"
                     THEN IF i \in b
                          THEN <<>>
                          ELSE <<Pool[i]>> \o
                               flatten_structure(get_contents(r, Pool[i].path), r, b)
                     ELSE <<Pool[i]>>
         IN  here \o flatten_structure(Tail(contents_list), r, b)

\* one call of repo.get_contents(path, ref=branch) after the access check,
\* and whether it raised
ListRequest(path, raised) ==
    [to |-> "github", call |-> "get_contents", path |-> path,
     result |-> [raised |-> raised, text |-> {}]]

\* the calls of get_contents that flatten_contents makes, in order: one for
\* every directory it comes to, of either command
RECURSIVE flatten_requests(_, _, _)
flatten_requests(contents_list, r, b) ==
    IF contents_list = <<>>
    THEN <<>>
    ELSE LET i == Head(contents_list)
             here == IF Pool[i].type = "dir"
                     THEN <<ListRequest(Pool[i].path, i \in b)>> \o
                          (IF i \in b
                           THEN <<>>
                           ELSE flatten_requests(get_contents(r, Pool[i].path), r, b))
                     ELSE <<>>
         IN  here \o flatten_requests(Tail(contents_list), r, b)

-----------------------------------------------------------------------------
(* The core operations applied to a flattened snapshot *)

NoStructure == [framework |-> "None", files |-> <<>>, directories |-> <<>>,
                issues |-> <<>>, recommendations |-> <<>>]

InitStructure ==
    /\ repo \in Repos
    /\ bad = {}
    /\ op = "init"
    /\ contents = <<>>
    /\ framework = "None"
    /\ structure = NoStructure
    /\ analyzed_files = <<>>
    /\ total_issues = 0
    /\ sent = <<>>
    /\ source = <<>>
    /\ finding = [info |-> "none"]
    /\ tasks = NoTasks
    /\ loop = IdleLoop
    /\ attachment = NoAttachment
    /\ GROQ_API_KEY = TRUE
    /\ github_client = TRUE
    /\ requests = <<>>
    /\ reply = NoReply

\* the two content lists the commands build from a snapshot
Flattened(r) ==
    {flatten_analyze(get_contents(r, <<>>), r, {}),
     flatten_structure(get_contents(r, <<>>), r, {})}

DetectFramework ==
    /\ op = "init"
    /\ \E c \in Flattened(repo) :
        /\ contents' = c
        /\ framework' = detect_framework(c)
    /\ op' = "detect_framework"
    /\ UNCHANGED <<tasks, loop, attachment, provider, repo, bad, structure, analyzed_files,
                   total_issues, sent, source, finding>>

AnalyzeStructure ==
    /\ op = "init"
    /\ \E c \in Flattened(repo), fw \in FrameworkNames \cup {"None"} :
        /\ contents' = c
        /\ framework' = fw
        /\ structure' = analyze_structure(c, fw)
    /\ op' = "analyze_structure"
    /\ UNCHANGED <<tasks, loop, attachment, provider, repo, bad, analyzed_files, total_issues, sent,
                   source, finding>>

NextStructure == DetectFramework \/ AnalyzeStructure

SpecStructure == InitStructure /\ [][NextStructure]_vars

-----------------------------------------------------------------------------
(* Properties of the framework detector and the structure auditor *)

\* the declaration order the detector is specified to follow
DeclarationOrder ==
    <<"React", "Vue", "Angular", "Django", "Flask", "Spring Boot",
      "Express.js", "Next.js", "Laravel", "Rails", "FastAPI", "Nest.js">>

PatternsOf(fw) ==
    LET i == CHOOSE k \in DOMAIN framework_patterns :
                framework_patterns[k].framework = fw
    IN  framework_patterns[i].patterns

AngularJson == <<"a","n","g","u","l","a","r",".","j","s","o","n">>

\* at least 2 patterns of fw match some path of the list
NominallyQualifies(fw, c) ==
    \E i, j \in DOMAIN PatternsOf(fw) :
        /\ i # j
        /\ PatternMatches(PatternsOf(fw)[i], all_paths(c))
        /\ PatternMatches(PatternsOf(fw)[j], all_paths(c))

HasAngularJson(c) ==
    \E e \in Range(c) : e.type = "file" /\ Lower(e.path) = AngularJson

Qualifies(fw, c) ==
    NominallyQualifies(fw, c) /\ (fw = "Angular" => HasAngularJson(c))

QualifyingPositions(c) ==
    {k \in DOMAIN DeclarationOrder : Qualifies(DeclarationOrder[k], c)}

\* C1: detect_framework returns the first framework, in the declaration
\* order React .. Nest.js, of which at least 2 patterns match (Angular also
\* needing angular.json), and None exactly when no framework qualifies.
C1_FirstQualifying ==
    op = "detect_framework" =>
        /\ [i \in DOMAIN framework_patterns |-> framework_patterns[i].framework]
              = DeclarationOrder
        /\ LET Q == QualifyingPositions(contents)
           IN  IF Q = {}
               THEN framework = "None"
               ELSE framework =
                        DeclarationOrder[CHOOSE k \in Q : \A m \in Q : k <= m]

\* two frameworks qualify and the earlier one is returned
C1_Witness ==
    /\ op = "detect_framework"
    /\ Cardinality(QualifyingPositions(contents)) >= 2
    /\ framework = "React"
    /\ Qualifies("Express.js", contents)

\* C2: without the exact path angular.json the detector never answers
\* Angular; Angular is skipped and a later qualifying framework is returned.
C2_AngularNeedsJson ==
    (op = "detect_framework"
        /\ ~\E e \in Range(contents) : Lower(e.path) = AngularJson)
    => /\ framework # "Angular"
       /\ (\E fw \in FrameworkNames \ {"Angular"} : Qualifies(fw, contents))
            => framework \in FrameworkNames \ {"Angular"}

\* 2 Angular patterns match, angular.json is absent, Nest.js is returned
C2_Witness ==
    /\ op = "detect_framework"
    /\ ~\E e \in Range(contents) : Lower(e.path) = AngularJson
    /\ NominallyQualifies("Angular", contents)
    /\ framework = "Nest.js"

\* the paths of the list, files and directories, lower-cased
LowerPaths(c) == {Lower(e.path) : e \in Range(c)}

IsMissing(recommended_path, c) ==
    \A p \in LowerPaths(c) : ~Contains(p, Lower(recommended_path))

FrameworksWithEntry == {"React", "Django", "Spring Boot", "Express.js", "Angular"}

\* C6: analyze_structure recommends only for a supplied framework that has a
\* structure_recommendations entry, and then exactly one entry, in table
\* order, per recommended path that no file or directory path contains.
C6_Recommendations ==
    op = "analyze_structure" =>
        /\ structure.framework = framework
        /\ IF framework \in FrameworksWithEntry
           THEN LET missing == SelectSeq(Recommended(framework),
                                         LAMBDA r : IsMissing(r, contents))
                IN  /\ Len(structure.recommendations) = Len(missing)
                    /\ \A i \in DOMAIN missing :
                        /\ structure.recommendations[i].path = missing[i]
                        /\ structure.recommendations[i].framework = framework
           ELSE structure.recommendations = <<>>

\* a framework with an entry, one recommended path present, the others missing
C6_Witness ==
    /\ op = "analyze_structure"
    /\ framework = "Django"
    /\ Len(structure.recommendations) = 4
    /\ \E r \in Range(Recommended("Django")) : ~IsMissing(r, contents)

ReadmeLower == <<"r","e","a","d","m","e",".","m","d">>

ReadmeIssue == "Missing README.md file"

ReadmeEntry ==
    [name |-> <<"R","E","A","D","M","E",".","m","d">>,
     path |-> <<"R","E","A","D","M","E",".","m","d">>,
     type |-> "file", parent |-> <<>>]

\* C7 as stated: the missing-README issue is reported exactly when no path of
\* the snapshot, of a file or of a directory, equals readme.md in any case.
C7_AnyPath ==
    op = "analyze_structure" =>
        (ReadmeIssue \in Range(structure.issues)
            <=> ~\E e \in Range(contents) : Lower(e.path) = ReadmeLower)

\* C7 amended: the missing-README issue is reported exactly when no file of
\* the snapshot has a path equal to readme.md in any case; adding a file
\* README.md to a snapshot without one removes that issue and leaves the
\* other issues as they were.
C7_FilePath ==
    op = "analyze_structure" =>
        LET noReadme == ~\E e \in Range(contents) :
                            e.type = "file" /\ Lower(e.path) = ReadmeLower
        IN  /\ ReadmeIssue \in Range(structure.issues) <=> noReadme
            /\ noReadme =>
                analyze_structure(Append(contents, ReadmeEntry), framework).issues
                    = SelectSeq(structure.issues, LAMBDA s : s # ReadmeIssue)

\* a snapshot with a README.md file and one without, both audited
C7_Witness ==
    /\ op = "analyze_structure"
    /\ \E e \in Range(contents) : e.type = "file" /\ Lower(e.path) = ReadmeLower
    /\ structure.issues = <<"Missing .gitignore file">>

-----------------------------------------------------------------------------
(* Source text.  A text is a sequence of tokens: identifiers, keywords and  *)
(* numbers are one token each, every punctuation mark is a token, a        *)
(* blank is the token " " and a line break the token "\n".  A source is a    *)
(* sequence of items; an item carries its tokens and, for ast.parse, the    *)
(* syntax-tree nodes Python's parser builds for it, level by level, or no   *)
(* tree when it is not valid Python.                                        *)

\* largest number of items in a source text
MaxItems == 2

NL == "\n"

NonWordTokens ==
    {" ", NL, "(", ")", "{", "}", "[", "]", ";", ".", ",", "=", "==", "===",
     "=>", "*", ":", "<", ">", "#", "//", "$"}

\* \w+ : a token made of letters, digits and underscores
IsWord(t) == t \notin NonWordTokens

\* \s : a blank or a line break
IsSpace(t) == t \in {" ", NL}

\* word tokens that begin with a digit
DigitTokens == {"1", "2"}

\* word tokens that hold a letter outside a-z and A-Z
NonAsciiTokens == {"café"}

RECURSIVE Flatten(_)
Flatten(ss) == IF ss = <<>> THEN <<>> ELSE Head(ss) \o Flatten(Tail(ss))

\* sub in text, token by token
ContainsTokens(text, sub) ==
    \E i \in 0..(Len(text) - Len(sub)) : SubSeq(text, i + 1, i + Len(sub)) = sub

\* the text of a source: its items joined by line breaks
Content(src) ==
    Flatten([i \in DOMAIN src |->
                IF i = 1 THEN src[i].text ELSE <<NL>> \o src[i].text])

\* content.split('\n')
RECURSIVE SplitLines(_)
SplitLines(text) ==
    IF \E i \in DOMAIN text : text[i] = NL
    THEN LET i == CHOOSE k \in DOMAIN text :
                    text[k] = NL /\ \A j \in 1..(k - 1) : text[j] # NL
         IN  <<SubSeq(text, 1, i - 1)>> \o SplitLines(SubSeq(text, i + 1, Len(text)))
    ELSE <<text>>

\* a word of 1,048,576 letters, written short
LongWord == "aaa...a"

\* len(token), in characters
TokenLength(t) == IF t = LongWord THEN 1024 * 1024 ELSE Len(t)

\* len(line), in characters
RECURSIVE LineLength(_)
LineLength(line) ==
    IF line = <<>> THEN 0 ELSE TokenLength(Head(line)) + LineLength(Tail(line))

-----------------------------------------------------------------------------
(* Syntax-tree nodes of the ast module, with the fields the analyzer reads *)

Node(type) ==
    [type |-> type, name |-> "", names |-> <<>>, module |-> "", id |-> "",
     ctx |-> "", func |-> ""]

\* alias(name, asname); asname "" is None
Alias(name, asname) == [name |-> name, asname |-> asname]

Import(names) == [Node("Import") EXCEPT !.names = names]

\* module "" is None (from . import x)
ImportFrom(module, names) ==
    [Node("ImportFrom") EXCEPT !.module = module, !.names = names]

FunctionDef(name) == [Node("FunctionDef") EXCEPT !.name = name]

AsyncFunctionDef(name) == [Node("AsyncFunctionDef") EXCEPT !.name = name]

ClassDef(name) == [Node("ClassDef") EXCEPT !.name = name]

Name(id, ctx) == [Node("Name") EXCEPT !.id = id, !.ctx = ctx]

\* a call whose func is the Name id
CallName(id) == [Node("Call") EXCEPT !.func = id]

\* a call whose func is not a Name (an Attribute)
CallOther == Node("Call")

Parsed(text, levels) == [text |-> text, ok |-> TRUE, nodes |-> levels]

NotPython(text) == [text |-> text, ok |-> FALSE, nodes |-> <<>>]

LongComment == "xxxxxxxxxxxxxxxxxxxxxxxxxxxxxxxxxxxxxxxxxxxxxxxxxxxxxxxxxxxxxxxxxxxxxxxxxxxxxxxxxxxxxxxxxxxxxxxxxxxx"

PyItems ==
    << Parsed(<<"import", " ", "os">>,
              << <<Import(<<Alias("os", "")>>)>> >>),
       Parsed(<<"import", " ", "numpy", " ", "as", " ", "np">>,
              << <<Import(<<Alias("numpy", "np")>>)>> >>),
       Parsed(<<"from", " ", ".", " ", "import", " ", "helper">>,
              << <<ImportFrom("", <<Alias("helper", "")>>)>> >>),
       Parsed(<<"from", " ", "os", " ", "import", " ", "path">>,
              << <<ImportFrom("os", <<Alias("path", "")>>)>> >>),
       Parsed(<<"def", " ", "foo", "(", ")", ":", NL, " ", "pass">>,
              << <<FunctionDef("foo")>>, <<Node("arguments"), Node("Pass")>> >>),
       Parsed(<<"def", " ", "foo", "(", ")", ":", NL,
                " ", "def", " ", "bar", "(", ")", ":", NL, " ", " ", "pass">>,
              << <<FunctionDef("foo")>>,
                 <<Node("arguments"), FunctionDef("bar")>>,
                 <<Node("arguments"), Node("Pass")>> >>),
       Parsed(<<"async", " ", "def", " ", "foo", "(", ")", ":", NL, " ", "pass">>,
              << <<AsyncFunctionDef("foo")>>, <<Node("arguments"), Node("Pass")>> >>),
       Parsed(<<"class", " ", "foo", ":", NL, " ", "pass">>,
              << <<ClassDef("foo")>>, <<Node("Pass")>> >>),
       Parsed(<<"foo", "(", ")">>,
              << <<Node("Expr")>>, <<CallName("foo")>>, <<Name("foo", "Load")>> >>),
       Parsed(<<"print", "(", "os", ".", "getcwd", "(", ")", ")">>,
              << <<Node("Expr")>>, <<CallName("print")>>,
                 <<Name("print", "Load"), CallOther>>,
                 <<Node("Attribute")>>, <<Name("os", "Load")>> >>),
       Parsed(<<"os", " ", "=", " ", "1">>,
              << <<Node("Assign")>>, <<Name("os", "Store"), Node("Constant")>> >>),
       Parsed(<<"np", " ", "=", " ", "foo">>,
              << <<Node("Assign")>>, <<Name("np", "Store"), Name("foo", "Load")>> >>),
       NotPython(<<"def", " ", "foo", "(", ":">>),
       Parsed(<<"#", " ", "TODO", " ", LongComment>>, <<>>),
       Parsed(<<"try", ":", NL, " ", "foo", "(", ")", NL,
                "except", ":", NL, " ", "pass">>,
              << <<Node("Try")>>, <<Node("Expr"), Node("ExceptHandler")>>,
                 <<CallName("foo"), Node("Pass")>>, <<Name("foo", "Load")>> >>) >>

ParseFailsMutant(src) == TRUE

\* ast.parse(content) raises unless every item is valid Python
ParseFails(src) == \E i \in DOMAIN src : ~src[i].ok

\* tree.body
Body(src) ==
    Flatten([i \in DOMAIN src |->
                IF Len(src[i].nodes) >= 1 THEN src[i].nodes[1] ELSE <<>>])

\* ast.walk(tree): breadth first, after the Module node itself
Walk(src) ==
    LET ds == {Len(src[i].nodes) : i \in DOMAIN src}
        depth == IF ds = {} THEN 0 ELSE CHOOSE d \in ds : \A e \in ds : e <= d
    IN  Flatten([k \in 1..depth |->
            Flatten([i \in DOMAIN src |->
                IF Len(src[i].nodes) >= k THEN src[i].nodes[k] ELSE <<>>])])

-----------------------------------------------------------------------------
(* CodeAnalyzer.analyze_python_file *)

\* lines 187-197: the names a node adds to analysis['imports'], each
\* alias.asname if alias.asname else alias.name
NodeImports(node) ==
    IF node.type = "Import"
       \/ (node.type = "ImportFrom" /\ node.module # "")
    THEN [i \in DOMAIN node.names |->
            IF node.names[i].asname # "" THEN node.names[i].asname
                                         ELSE node.names[i].name]
    ELSE <<>>

PyImports(walk) == Flatten([i \in DOMAIN walk |-> NodeImports(walk[i])])

NamesOfType(walk, type) ==
    LET sel == SelectSeq(walk, LAMBDA n : n.type = type)
    IN  [i \in DOMAIN sel |-> sel[i].name]

\* lines 204-205: every Name node, whatever its context
used_names(walk) == {n.id : n \in {m \in Range(walk) : m.type = "Name"}}

\* line 216
defined_functions(src) ==
    {n.name : n \in {m \in Range(Body(src)) : m.type = "FunctionDef"}}

\* lines 219-225
all_referenced_names(walk) ==
    {n.func : n \in {m \in Range(walk) : m.type = "Call" /\ m.func # ""}}
    \cup {n.id : n \in {m \in Range(walk) : m.type = "Name" /\ m.ctx = "Load"}}

\* a list holding the members of a set of names (the iteration order of a
\* Python set is not specified)
SetToSeq(S) ==
    CHOOSE q \in [1..Cardinality(S) -> S] : Range(q) = S

PyUnusedFunctionsMutant(src, walk, classes) ==
    SetToSeq({f \in Range(NamesOfType(walk, "FunctionDef")) :
                 f \notin all_referenced_names(walk) /\ f \notin Range(classes)})

\* line 227
PyUnusedFunctions(src, walk, classes) ==
    SetToSeq({f \in defined_functions(src) :
                 f \notin all_referenced_names(walk) /\ f \notin Range(classes)})

\* lines 230-235
PyPotentialIssues(content) ==
    (IF ContainsTokens(content, <<"print", "(">>)
     THEN <<"Debug print statements found">> ELSE <<>>)
    \o (IF ContainsTokens(content, <<"TODO">>) \/ ContainsTokens(content, <<"FIXME">>)
        THEN <<"TODO/FIXME comments found">> ELSE <<>>)
    \o (IF ContainsTokens(content, <<"except", ":">>)
        THEN <<"Bare except clauses found (use specific exceptions)">> ELSE <<>>)

\* lines 238-241
PySuggestions(content, functions) ==
    (IF Len(functions) > 50
     THEN <<"Consider splitting this file - it has many functions">> ELSE <<>>)
    \o (IF \E line \in Range(SplitLines(content)) : LineLength(line) > 100
        THEN <<"Some lines are too long (>100 characters)">> ELSE <<>>)

analyze_python_fileMutant(src) ==
    [error |-> "SyntaxError", potential_issues |-> <<>>]

analyze_python_file(src) ==
    IF ParseFails(src)
    THEN [error |-> "SyntaxError",
          potential_issues |-> <<"Parsing error: SyntaxError">>]
    ELSE LET walk == Walk(src)
             imports == PyImports(walk)
             functions == NamesOfType(walk, "FunctionDef")
             classes == NamesOfType(walk, "ClassDef")
         IN  [imports          |-> imports,
              functions        |-> functions,
              classes          |-> classes,
              variables        |-> <<>>,
              unused_imports   |->
                  SelectSeq(imports, LAMBDA n : n \notin used_names(walk)),
              unused_functions |-> PyUnusedFunctions(src, walk, classes),
              unused_variables |-> <<>>,
              potential_issues |-> PyPotentialIssues(Content(src)),
              suggestions      |-> PySuggestions(Content(src), functions)]

-----------------------------------------------------------------------------
(* Regular-expression and string primitives over token texts.  Texts hold   *)
(* no two adjacent word tokens, so a word token is a maximal \w+ run.       *)

Tok(text, i) == IF i \in DOMAIN text THEN text[i] ELSE NL

WordAt(text, i) == i \in DOMAIN text /\ IsWord(text[i])

\* the position after a \s* that starts at i
RECURSIVE SkipWs(_, _)
SkipWs(text, i) ==
    IF i \in DOMAIN text /\ IsSpace(text[i]) THEN SkipWs(text, i + 1) ELSE i

\* the position after a \s+ that starts at i, 0 when there is no blank at i
SkipWs1(text, i) ==
    IF i \in DOMAIN text /\ IsSpace(text[i]) THEN SkipWs(text, i) ELSE 0

\* the least position >= i that holds token t, 0 when there is none
IndexFrom(text, i, t) ==
    IF \E k \in i..Len(text) : text[k] = t
    THEN CHOOSE k \in i..Len(text) :
            text[k] = t /\ \A j \in i..(k - 1) : text[j] # t
    ELSE 0

\* line.strip()
RECURSIVE Strip(_)
Strip(line) ==
    IF line # <<>> /\ IsSpace(Head(line)) THEN Strip(Tail(line))
    ELSE IF line # <<>> /\ IsSpace(line[Len(line)])
         THEN Strip(SubSeq(line, 1, Len(line) - 1))
         ELSE line

\* line.startswith(prefix)
StartsWith(line, prefix) ==
    Len(line) >= Len(prefix) /\ SubSeq(line, 1, Len(prefix)) = prefix

\* text.replace(sub, '')
RECURSIVE Remove(_, _)
Remove(text, sub) ==
    IF text = <<>> THEN <<>>
    ELSE IF StartsWith(text, sub)
         THEN Remove(SubSeq(text, Len(sub) + 1, Len(text)), sub)
         ELSE <<Head(text)>> \o Remove(Tail(text), sub)

\* text.split(t)[0]
BeforeFirst(text, t) ==
    IF IndexFrom(text, 1, t) = 0 THEN text
    ELSE SubSeq(text, 1, IndexFrom(text, 1, t) - 1)

\* text.split(t)[-1]
RECURSIVE AfterLast(_, _)
AfterLast(text, t) ==
    IF IndexFrom(text, 1, t) = 0 THEN text
    ELSE AfterLast(SubSeq(text, IndexFrom(text, 1, t) + 1, Len(text)), t)

\* \b between positions i and i + 1 of text
Boundary(text, i) == WordAt(text, i) # WordAt(text, i + 1)

\* re.search(r'\b' + re.escape(sub) + r'\b', text)
SearchWholeWord(text, sub) ==
    \E i \in 0..(Len(text) - Len(sub)) :
        /\ SubSeq(text, i + 1, i + Len(sub)) = sub
        /\ Boundary(text, i)
        /\ Boundary(text, i + Len(sub))

\* the least member of a non-empty set of positions
Least(S) == CHOOSE i \in S : \A j \in S : i <= j

-----------------------------------------------------------------------------
(* CodeAnalyzer.analyze_java_file *)

Modifiers == {"public", "private", "protected"}

\* the position after (public|private|protected)\s+(static\s+)? matched at i,
\* with the optional group taken (TRUE) or not; 0 when it does not match
AfterModifier(line, i, static) ==
    IF Tok(line, i) \in Modifiers /\ SkipWs1(line, i + 1) # 0
    THEN LET k == SkipWs1(line, i + 1)
         IN  IF ~static THEN k
             ELSE IF Tok(line, k) = "static" THEN SkipWs1(line, k + 1) ELSE 0
    ELSE 0

\* line 270: (class|interface)\s+(\w+) at k; the name's position or 0
ClassNameAt(line, k) ==
    IF k # 0 /\ Tok(line, k) \in {"class", "interface"}
       /\ SkipWs1(line, k + 1) # 0 /\ WordAt(line, SkipWs1(line, k + 1))
    THEN SkipWs1(line, k + 1)
    ELSE 0

ClassMatch(line, i) ==
    IF ClassNameAt(line, AfterModifier(line, i, TRUE)) # 0
    THEN ClassNameAt(line, AfterModifier(line, i, TRUE))
    ELSE ClassNameAt(line, AfterModifier(line, i, FALSE))

\* the position after the [\w<>]+ run that starts at k
RECURSIVE SkipType(_, _)
SkipType(line, k) ==
    IF k \in DOMAIN line /\ (IsWord(line[k]) \/ line[k] \in {"<", ">"})
    THEN SkipType(line, k + 1)
    ELSE k

\* line 274: [\w<>]+\s+(\w+)\s*\([^)]*\)\s*\{ at k; the name's position or 0
MethodNameAt(line, k) ==
    IF k = 0 \/ SkipType(line, k) = k \/ SkipWs1(line, SkipType(line, k)) = 0
    THEN 0
    ELSE LET n == SkipWs1(line, SkipType(line, k))
             p == SkipWs(line, n + 1)
             q == IndexFrom(line, p + 1, ")")
         IN  IF WordAt(line, n) /\ Tok(line, p) = "(" /\ q # 0
                /\ Tok(line, SkipWs(line, q + 1)) = "{"
                /\ SkipWs(line, q + 1) \in DOMAIN line
             THEN n
             ELSE 0

MethodMatch(line, i) ==
    IF MethodNameAt(line, AfterModifier(line, i, TRUE)) # 0
    THEN MethodNameAt(line, AfterModifier(line, i, TRUE))
    ELSE MethodNameAt(line, AfterModifier(line, i, FALSE))

\* re.search: the group of the leftmost match in the line, <<>> when none
SearchLine(line, Match(_, _)) ==
    LET starts == {i \in DOMAIN line : Match(line, i) # 0}
    IN  IF starts = {} THEN <<>> ELSE <<line[Match(line, Least(starts))]>>

\* lines 263-265
JavaImports(lines) ==
    LET sel == SelectSeq(lines,
                  LAMBDA l : StartsWith(Strip(l), <<"import", " ">>))
    IN  [i \in DOMAIN sel |->
            Remove(Remove(Strip(sel[i]), <<"import", " ">>), <<";">>)]

\* lines 269-278
JavaClasses(lines) ==
    Flatten([i \in DOMAIN lines |-> SearchLine(lines[i], ClassMatch)])

JavaMethods(lines) ==
    Flatten([i \in DOMAIN lines |-> SearchLine(lines[i], MethodMatch)])

\* lines 284-288
method_referenced(method_name, lines) ==
    \E line \in Range(lines) :
        /\ ContainsTokens(line, <<" ", method_name, "(">>)
        /\ ~ContainsTokens(BeforeFirst(line, "{"), <<" ", method_name, "(">>)

\* lines 281-290
JavaUnusedMethods(lines) ==
    SetToSeq({m \in Range(JavaMethods(lines)) : ~method_referenced(m, lines)})

\* line 301: public\s+static\s+void\s+main\s*\(String\[\]\s+args\)
MainAt(text, i) ==
    LET a == SkipWs1(text, i + 1)
        b == SkipWs1(text, a + 1)
        c == SkipWs1(text, b + 1)
        d == SkipWs(text, c + 1)
        e == SkipWs1(text, d + 4)
    IN  /\ Tok(text, i) = "public" /\ a # 0 /\ Tok(text, a) = "static"
        /\ b # 0 /\ Tok(text, b) = "void" /\ c # 0 /\ Tok(text, c) = "main"
        /\ Tok(text, d) = "(" /\ Tok(text, d + 1) = "String"
        /\ Tok(text, d + 2) = "[" /\ Tok(text, d + 3) = "]"
        /\ e # 0 /\ Tok(text, e) = "args" /\ Tok(text, e + 1) = ")"

\* lines 293-302
JavaPotentialIssues(content) ==
    (IF ContainsTokens(content, <<"System", ".", "out", ".", "println">>)
     THEN <<"System.out.println statements found (use logging framework like SLF4J)">>
     ELSE <<>>)
    \o (IF ContainsTokens(content, <<"catch", " ", "(", "Exception", " ", "e", ")">>)
           \/ ContainsTokens(content, <<"catch", " ", "(", "Throwable", " ", "t", ")">>)
        THEN <<"Catching generic Exception/Throwable (use specific exceptions for better error handling)">>
        ELSE <<>>)
    \o (IF ContainsTokens(content, <<"//", " ", "TODO">>)
           \/ ContainsTokens(content, <<"//", " ", "FIXME">>)
        THEN <<"TODO/FIXME comments found">> ELSE <<>>)
    \o (IF ContainsTokens(content, <<"new", " ", "File", "(">>)
           /\ ~ContainsTokens(content, <<"try", " ", "{">>)
        THEN <<"File operations without try-with-resources or explicit close (resource leak risk)">>
        ELSE <<>>)

\* lines 301-311
JavaSuggestions(content, lines, classes, methods) ==
    (IF (\E i \in DOMAIN content : MainAt(content, i)) /\ Len(classes) > 1
     THEN <<"Consider refactoring main method into a dedicated entry point class if project grows">>
     ELSE <<>>)
    \o (IF Len(methods) > 20
        THEN <<"Consider refactoring this class - it has many methods (High Cohesion, Low Coupling principle)">>
        ELSE <<>>)
    \o (IF ~\E line \in Range(lines) :
                ContainsTokens(line, <<"private">>) \/ ContainsTokens(line, <<"protected">>)
        THEN <<"Consider using private/protected access modifiers for better encapsulation">>
        ELSE <<>>)
    \o (IF ContainsTokens(content, <<"java", ".", "util", ".", "Date">>)
        THEN <<"Consider using java.time (JSR 310) for modern date/time API instead of java.util.Date">>
        ELSE <<>>)

\* the imports whose last segment stands as a whole word at two places or
\* more: a count that leaves the import line itself out
used_imports_countMutant(imports, content) ==
    Cardinality({i \in DOMAIN imports :
        LET sub == AfterLast(imports[i], ".")
        IN  Cardinality({k \in 0..(Len(content) - Len(sub)) :
                /\ SubSeq(content, k + 1, k + Len(sub)) = sub
                /\ Boundary(content, k)
                /\ Boundary(content, k + Len(sub))}) >= 2})

\* lines 316-319
used_imports_count(imports, content) ==
    Cardinality({i \in DOMAIN imports :
                    SearchWholeWord(content, AfterLast(imports[i], "."))})

\* the advisory of line 321, a text that names no import
ImportAdvisory ==
    <<"Some imports might be unused (manual verification recommended)">>

\* the advisory whenever no more imports are counted used than were found
JavaUnusedImportsMutant(imports, content) ==
    IF used_imports_count(imports, content) <= Len(imports)
    THEN <<ImportAdvisory>>
    ELSE <<>>

\* lines 320-321
JavaUnusedImports(imports, content) ==
    IF used_imports_count(imports, content) < Len(imports)
    THEN <<ImportAdvisory>>
    ELSE <<>>

analyze_java_file(src) ==
    LET content == Content(src)
        lines == SplitLines(content)
        imports == JavaImports(lines)
        classes == JavaClasses(lines)
        methods == JavaMethods(lines)
    IN  [potential_issues |-> JavaPotentialIssues(content),
         suggestions      |-> JavaSuggestions(content, lines, classes, methods),
         imports          |-> imports,
         classes          |-> classes,
         methods          |-> methods,
         unused_imports   |-> JavaUnusedImports(imports, content),
         unused_methods   |-> JavaUnusedMethods(lines)]

JavaItems ==
    << Parsed(<<"import", " ", "java", ".", "util", ".", "List", ";">>,
              << <<Import(<<Alias("java.util.List", "")>>)>> >>),
       NotPython(<<"import", " ", "java", ".", "util", ".", "*", ";">>),
       NotPython(<<"public", " ", "class", " ", "Main", " ", "{">>),
       NotPython(<<" ", "public", " ", "void", " ", "run", "(", ")", " ", "{">>),
       NotPython(<<" ", "public", " ", "static", " ", "void", " ", "main",
                   "(", "String", "[", "]", " ", "args", ")", " ", "{">>),
       NotPython(<<" ", "run", "(", ")", ";">>),
       Parsed(<<"run", "(", ")", ";">>,
              << <<Node("Expr")>>, <<CallName("run")>>, <<Name("run", "Load")>> >>),
       NotPython(<<" ", "if", " ", "(", "ready", ")", " ", "{", " ", "run",
                   "(", ")", ";", " ", "}">>),
       NotPython(<<" ", "private", " ", "List", " ", "items", ";">>),
       NotPython(<<"}">>),
       NotPython(<<" ", "obj", ".", "run", "(", ")", ";">>),
       NotPython(<<"import", " ", "a", ".", "$", "B", ";">>) >>

-----------------------------------------------------------------------------
(* CodeAnalyzer.analyze_javascript_file *)

NoMatch == [ok |-> FALSE, names |-> <<>>, e |-> 0]

Match(names, e) == [ok |-> TRUE, names |-> names, e |-> e]

\* no line break in text[from..to]: the reach of .*?
SameLine(text, from, to) == \A k \in from..to : Tok(text, k) # NL

\* the least q >= from with text[q] = ")" on the same line, followed by
\* \s* and the token after; 0 when there is none
CloseParenThen(text, from, after) ==
    LET qs == {q \in from..Len(text) :
                  /\ text[q] = ")"
                  /\ SameLine(text, from, q)
                  /\ Tok(text, SkipWs(text, q + 1)) = after
                  /\ SkipWs(text, q + 1) \in DOMAIN text}
    IN  IF qs = {} THEN 0 ELSE Least(qs)

\* line 342: function\s+(\w+)\s*\(
FunctionDeclAt(text, i) ==
    LET a == SkipWs1(text, i + 1)
    IN  IF text[i] = "function" /\ a # 0 /\ WordAt(text, a)
           /\ Tok(text, SkipWs(text, a + 1)) = "("
           /\ SkipWs(text, a + 1) \in DOMAIN text
        THEN Match(<<text[a]>>, SkipWs(text, a + 1))
        ELSE NoMatch

DeclKeywords == {"const", "let", "var"}

\* line 343: (?:const|let|var)\s+(\w+)\s*=\s*(?:function|\(.*?\)\s*=>)
FunctionExprAt(text, i) ==
    LET a == SkipWs1(text, i + 1)
        e == SkipWs(text, a + 1)
        g == SkipWs(text, e + 1)
        q == CloseParenThen(text, g + 1, "=>")
    IN  IF text[i] \in DeclKeywords /\ a # 0 /\ WordAt(text, a)
           /\ Tok(text, e) = "=" /\ e \in DOMAIN text
        THEN IF Tok(text, g) = "function" THEN Match(<<text[a]>>, g)
             ELSE IF Tok(text, g) = "(" /\ g \in DOMAIN text /\ q # 0
                  THEN Match(<<text[a]>>, SkipWs(text, q + 1))
                  ELSE NoMatch
        ELSE NoMatch

\* line 344: class\s+\w+\s*\{[^}]*?(\w+)\s*\(.*?\)\s*\{
ClassMethodAt(text, i) ==
    LET a == SkipWs1(text, i + 1)
        b == SkipWs(text, a + 1)
        ns == {n \in (b + 1)..Len(text) :
                  /\ \A k \in (b + 1)..(n - 1) : text[k] # "}"
                  /\ WordAt(text, n)
                  /\ Tok(text, SkipWs(text, n + 1)) = "("
                  /\ SkipWs(text, n + 1) \in DOMAIN text
                  /\ CloseParenThen(text, SkipWs(text, n + 1) + 1, "{") # 0}
    IN  IF text[i] = "class" /\ a # 0 /\ WordAt(text, a)
           /\ Tok(text, b) = "{" /\ b \in DOMAIN text /\ ns # {}
        THEN LET n == Least(ns)
                 q == CloseParenThen(text, SkipWs(text, n + 1) + 1, "{")
             IN  Match(<<text[n]>>, SkipWs(text, q + 1))
        ELSE NoMatch

\* the position after the [\w,\s]+ run that starts at k
RECURSIVE SkipNames(_, _)
SkipNames(text, k) ==
    IF k \in DOMAIN text /\ (IsWord(text[k]) \/ text[k] = "," \/ IsSpace(text[k]))
    THEN SkipNames(text, k + 1)
    ELSE k

\* the least ";" from position k on, on the same line; 0 when there is none
SemicolonFrom(text, k) ==
    LET q == IndexFrom(text, k, ";")
    IN  IF q # 0 /\ SameLine(text, k, q) THEN q ELSE 0

\* re.findall(r'(\w+)', group)
WordsOf(group) == SelectSeq(group, IsWord)

\* line 355: (?:const|let|var)\s+([\w,\s]+)\s*=?.*?;
\* \s+ yields its last blank to the group when no name follows the blanks
VarDeclAt(text, i) ==
    LET a == SkipWs1(text, i + 1)
        from == IF WordAt(text, a) \/ Tok(text, a) = "," THEN a ELSE a - 1
        r == SkipNames(text, from)
        q == SemicolonFrom(text, r)
    IN  IF text[i] \in DeclKeywords /\ a # 0 /\ from > i + 1 /\ q # 0
        THEN Match(WordsOf(SubSeq(text, from, r - 1)), q)
        ELSE NoMatch

\* line 356: this\.(\w+)\s*=
ThisPropertyAt(text, i) ==
    IF text[i] = "this" /\ Tok(text, i + 1) = "." /\ WordAt(text, i + 2)
       /\ Tok(text, SkipWs(text, i + 3)) \in {"=", "==", "===", "=>"}
       /\ SkipWs(text, i + 3) \in DOMAIN text
    THEN Match(<<text[i + 2]>>, SkipWs(text, i + 3))
    ELSE NoMatch

\* re.finditer: the matches from position pos on, left to right, each
\* starting after the end of the one before; m[i] is the match that starts at i
RECURSIVE FindIter(_, _)
FindIter(m, pos) ==
    LET starts == {i \in DOMAIN m : i >= pos /\ m[i].ok}
    IN  IF starts = {} THEN <<>>
        ELSE LET i == Least(starts)
             IN  m[i].names \o FindIter(m, m[i].e + 1)

\* lines 347-351
JsFunctions(content) ==
    FindIter([i \in DOMAIN content |-> FunctionDeclAt(content, i)], 1)
    \o FindIter([i \in DOMAIN content |-> FunctionExprAt(content, i)], 1)
    \o FindIter([i \in DOMAIN content |-> ClassMethodAt(content, i)], 1)

\* lines 358-364
JsVariables(content) ==
    FindIter([i \in DOMAIN content |-> VarDeclAt(content, i)], 1)
    \o FindIter([i \in DOMAIN content |-> ThisPropertyAt(content, i)], 1)

\* the identifiers that occur at two places or more
JsWordsMutant(content) ==
    {t \in Range(content) :
        /\ IsWord(t) /\ t \notin DigitTokens \cup NonAsciiTokens
        /\ Cardinality({i \in DOMAIN content : content[i] = t}) >= 2}

\* line 369: re.findall(r'\b[a-zA-Z_][a-zA-Z0-9_]*\b', content); the
\* pattern finds no part of a word that holds another letter, since there
\* is no word boundary inside the word
JsWords(content) ==
    {t \in Range(content) : IsWord(t) /\ t \notin DigitTokens \cup NonAsciiTokens}

\* line 373: re.search(fr'\b{name}\s*\(', content)
CalledInText(name, content) ==
    \E i \in DOMAIN content :
        /\ content[i] = name
        /\ Tok(content, SkipWs(content, i + 1)) = "("
        /\ SkipWs(content, i + 1) \in DOMAIN content

\* tokens that hold the letters "any"
HoldsAny(t) == t \in {"any", "many", "company"}

\* line 387: (?:private|public)\s+.*?:\s+\S+\s*=\s*new\s+\S+\(\)
DirectInstantiation(text) ==
    \E i, c, n \in DOMAIN text :
        /\ text[i] \in {"private", "public"} /\ SkipWs1(text, i + 1) # 0
        /\ c >= SkipWs1(text, i + 1) /\ text[c] = ":" /\ SameLine(text, i, c)
        /\ SkipWs1(text, c + 1) # 0 /\ SkipWs1(text, c + 1) < n
        /\ \A k \in SkipWs1(text, c + 1)..(n - 1) :
                ~IsSpace(text[k]) \/ SkipWs(text, k) = n
        /\ text[n] = "="
        /\ Tok(text, SkipWs(text, n + 1)) = "new"
        /\ SkipWs1(text, SkipWs(text, n + 1) + 1) # 0
        /\ LET t == SkipWs1(text, SkipWs(text, n + 1) + 1)
           IN  \E p \in (t + 1)..Len(text) :
                /\ \A k \in t..(p - 1) : ~IsSpace(text[k])
                /\ text[p] = "(" /\ Tok(text, p + 1) = ")"

\* lines 377-396, the potential_issues entries
JsPotentialIssues(content) ==
    (IF ContainsTokens(content, <<"console", ".", "log">>)
        \/ ContainsTokens(content, <<"console", ".", "error">>)
        \/ ContainsTokens(content, <<"console", ".", "warn">>)
     THEN <<"Console.log/error/warn statements found (consider removing or using a proper logging library in production)">>
     ELSE <<>>)
    \o (IF ContainsTokens(content, <<"eval", "(">>)
        THEN <<"`eval()` usage found (potential security risk and performance implications)">>
        ELSE <<>>)
    \o (IF DirectInstantiation(content)
        THEN <<"Direct instantiation of services/dependencies in components (consider Dependency Injection framework like Angular's or decorators for others)">>
        ELSE <<>>)
    \o (IF (\E i \in DOMAIN content :
                content[i] \in {"subscribe", "unsubscribe"}
                /\ Tok(content, SkipWs(content, i + 1)) = "("
                /\ SkipWs(content, i + 1) \in DOMAIN content)
           /\ ~ContainsTokens(content, <<"unsubscribe">>)
        THEN <<"Observable subscriptions without explicit unsubscription (potential memory leak in Angular/RxJS contexts)">>
        ELSE <<>>)

\* lines 379-394, the suggestions entries; ==(?!=) also finds the last two
\* characters of ===
JsSuggestions(content, language, functions) ==
    (IF ContainsTokens(content, <<"var", " ">>)
     THEN <<"Consider using 'let' or 'const' instead of 'var' for better block scoping">>
     ELSE <<>>)
    \o (IF \E t \in Range(content) : t \in {"==", "==="}
        THEN <<"Consider using strict equality (===) instead of (==) to avoid type coercion issues">>
        ELSE <<>>)
    \o (IF (\E t \in Range(content) : HoldsAny(t)) /\ language = "typescript"
        THEN <<"Extensive use of 'any' type in TypeScript (consider more specific types for better type safety)">>
        ELSE <<>>)
    \o (IF Len(functions) > 30
        THEN <<"Consider refactoring this file - it has too many functions (violates Single Responsibility Principle)">>
        ELSE <<>>)
    \o (IF ContainsTokens(content, <<"jQuery">>) \/ ContainsTokens(content, <<"$", "(">>)
        THEN <<"Consider using modern JavaScript APIs or lighter alternatives instead of jQuery for new development">>
        ELSE <<>>)

analyze_javascript_file(src, language) ==
    LET content == Content(src)
        functions == JsFunctions(content)
        variables == JsVariables(content)
        words == JsWords(content)
    IN  [potential_issues |-> JsPotentialIssues(content),
         suggestions      |-> JsSuggestions(content, language, functions),
         functions        |-> functions,
         variables        |-> variables,
         unused_functions |->
            SelectSeq(functions,
                LAMBDA n : n \notin words /\ ~CalledInText(n, content)),
         unused_variables |->
            SelectSeq(variables,
                LAMBDA n : n \notin words /\ n \notin Range(functions))]

JsItems ==
    << NotPython(<<"var", " ", "x", " ", "=", " ", "1", ";">>),
       Parsed(<<"console", ".", "log", "(", "x", ")", ";">>,
              << <<Node("Expr")>>, <<CallOther>>,
                 <<Node("Attribute"), Name("x", "Load")>>,
                 <<Name("console", "Load")>> >>),
       NotPython(<<"function", " ", "foo", "(", ")", " ", "{", "}">>),
       NotPython(<<"const", " ", "bar", " ", "=", " ", "(", ")", " ", "=>",
                   " ", "1", ";">>),
       Parsed(<<"foo", "(", ")", ";">>,
              << <<Node("Expr")>>, <<CallName("foo")>>, <<Name("foo", "Load")>> >>),
       NotPython(<<"let", " ", "y", ",", " ", "z", ";">>),
       NotPython(<<"let", " ", "y", ",", " ", "2", ";">>),
       NotPython(<<"let", " ", "a", ":", " ", "any", " ", "=", " ", "1", ";">>),
       NotPython(<<"if", " ", "(", "x", " ", "===", " ", "1", ")", " ", "{",
                   " ", "foo", "(", ")", ";", " ", "}">>),
       NotPython(<<"class", " ", "Box", " ", "{", NL,
                   " ", "get", "(", ")", " ", "{", " ", "this", ".", "v",
                   " ", "=", " ", "1", ";", " ", "}", NL, "}">>),
       NotPython(<<"function", " ", "2", "(", ")", " ", "{", "}">>),
       NotPython(<<"const", " ", "2", " ", "=", " ", "(", ")", " ", "=>",
                   " ", "1", ";">>),
       NotPython(<<"const", " ", "café", " ", "=", " ", "(", ")", " ", "=>",
                   " ", "1", ";">>),
       NotPython(<<"let", " ", "café", ",", " ", "y", ";">>) >>

-----------------------------------------------------------------------------
(* The analyzers applied to source texts *)

\* the texts of at most MaxItems items of one language
SourcesOf(items) ==
    UNION {[1..n -> Range(items)] : n \in 1..MaxItems}

Sources == SourcesOf(PyItems) \cup SourcesOf(JavaItems) \cup SourcesOf(JsItems)

InitAnalyzers ==
    /\ source \in Sources
    /\ finding = [info |-> "none"]
    /\ op = "init"
    /\ repo = {}
    /\ bad = {}
    /\ contents = <<>>
    /\ framework = "None"
    /\ structure = NoStructure
    /\ analyzed_files = <<>>
    /\ total_issues = 0
    /\ sent = <<>>
    /\ tasks = NoTasks
    /\ loop = IdleLoop
    /\ attachment = NoAttachment
    /\ GROQ_API_KEY = TRUE
    /\ github_client = TRUE
    /\ requests = <<>>
    /\ reply = NoReply

AnalyzePythonFile ==
    /\ op = "init"
    /\ finding' = analyze_python_file(source)
    /\ op' = "analyze_python_file"
    /\ UNCHANGED <<tasks, loop, attachment, provider, repo, bad, contents, framework, structure,
                   analyzed_files, total_issues, sent, source>>

AnalyzeJavaFile ==
    /\ op = "init"
    /\ finding' = analyze_java_file(source)
    /\ op' = "analyze_java_file"
    /\ UNCHANGED <<tasks, loop, attachment, provider, repo, bad, contents, framework, structure,
                   analyzed_files, total_issues, sent, source>>

AnalyzeJavascriptFile ==
    /\ op = "init"
    /\ \E language \in {"javascript", "typescript"} :
        finding' = analyze_javascript_file(source, language)
    /\ op' = "analyze_javascript_file"
    /\ UNCHANGED <<tasks, loop, attachment, provider, repo, bad, contents, framework, structure,
                   analyzed_files, total_issues, sent, source>>

NextAnalyzers == AnalyzePythonFile \/ AnalyzeJavaFile \/ AnalyzeJavascriptFile

SpecAnalyzers == InitAnalyzers /\ [][NextAnalyzers]_vars

-----------------------------------------------------------------------------
(* CodeAnalyzer.supported_extensions and the dispatch on a file extension *)

supported_extensions ==
  <<
    [ext |-> <<".","p","y">>, language |-> "python"],
    [ext |-> <<".","j","s">>, language |-> "javascript"],
    [ext |-> <<".","t","s">>, language |-> "typescript"],
    [ext |-> <<".","j","s","x">>, language |-> "javascript"],
    [ext |-> <<".","t","s","x">>, language |-> "typescript"],
    [ext |-> <<".","j","a","v","a">>, language |-> "java"],
    [ext |-> <<".","c","p","p">>, language |-> "cpp"],
    [ext |-> <<".","c">>, language |-> "c"],
    [ext |-> <<".","c","s">>, language |-> "csharp"],
    [ext |-> <<".","g","o">>, language |-> "go"],
    [ext |-> <<".","r","s">>, language |-> "rust"],
    [ext |-> <<".","p","h","p">>, language |-> "php"],
    [ext |-> <<".","r","b">>, language |-> "ruby"],
    [ext |-> <<".","s","w","i","f","t">>, language |-> "swift"],
    [ext |-> <<".","k","t">>, language |-> "kotlin"],
    [ext |-> <<".","s","c","a","l","a">>, language |-> "scala"],
    [ext |-> <<".","h","t","m","l">>, language |-> "html"],
    [ext |-> <<".","c","s","s">>, language |-> "css"],
    [ext |-> <<".","s","c","s","s">>, language |-> "scss"],
    [ext |-> <<".","s","q","l">>, language |-> "sql"]
  >>

\* file_ext in self.code_analyzer.supported_extensions
Supported(file_ext) ==
    \E i \in DOMAIN supported_extensions : supported_extensions[i].ext = file_ext

\* self.code_analyzer.supported_extensions[file_ext]
LanguageOf(file_ext) ==
    LET i == CHOOSE k \in DOMAIN supported_extensions :
                supported_extensions[k].ext = file_ext
    IN  supported_extensions[i].language

\* os.path.splitext(name)[1].lower()
ExtOf(name) == Lower(splitext(name))

JsExtensions ==
    {<<".","j","s">>, <<".","t","s">>, <<".","j","s","x">>, <<".","t","s","x">>}

\* the if/elif chain of lines 91-98; analyze_javascript_file is called
\* without a language and takes its default
Dispatch(file_ext, file_content, language) ==
    IF file_ext = <<".","p","y">> THEN analyze_python_file(file_content)
    ELSE IF file_ext = <<".","j","a","v","a">> THEN analyze_java_file(file_content)
    ELSE IF file_ext \in JsExtensions
         THEN analyze_javascript_file(file_content, "javascript")
         ELSE [info |-> language]

\* the text of each file of the snapshot
FileText(path) ==
    CASE path = <<"M","a","i","n",".","j","a","v","a">> ->
            <<JavaItems[2], JavaItems[3], JavaItems[10]>>
      [] path = <<"a","p","p",".","p","y">> ->
            <<PyItems[1], PyItems[10]>>
      [] path = <<"r","e","a","d","m","e",".","m","d","/","x",".","p","y">> ->
            <<PyItems[5]>>
      [] path = <<"x",".","p","y">> ->
            <<PyItems[5]>>
      [] path = <<"s","e","r","v","e","r",".","j","s">> ->
            <<JsItems[1], JsItems[2]>>
      [] path = <<"s","r","c","/","A","p","p",".","j","s">> ->
            <<JsItems[3], NotPython(<<"//", " ", LongWord>>)>>
      [] path = <<"s","r","c","/","m","a","i","n",".","t","s">> ->
            <<JsItems[8]>>
      [] path = <<"s","r","c","/","a","p","p",".","m","o","d","u","l","e",".","t","s">> ->
            <<JsItems[10]>>
      [] OTHER -> <<NotPython(<<"<", "html", ">">>)>>

-----------------------------------------------------------------------------
(* core/github_client.py: check_repo_access *)

\* the outcomes of github_client.get_repo and the first listing: success, or
\* an exception whose text holds the markers of the set
AccessOutcomes ==
    {[raised |-> FALSE, text |-> {}]} \cup
    {[raised |-> TRUE, text |-> m] : m \in SUBSET {"404", "401"}}

\* check_repo_access with the tests of lines 22 and 24 in the other order
check_repo_accessMutant(client, outcome) ==
    IF ~client
    THEN [repo |-> "None",
          error |-> "GitHub client is not initialized. Check GITHUB_TOKEN."]
    ELSE IF ~outcome.raised
    THEN [repo |-> "repo", error |-> "None"]
    ELSE IF "401" \in outcome.text
    THEN [repo |-> "None",
          error |-> "Authentication failed. Check your GitHub token."]
    ELSE IF "404" \in outcome.text
    THEN [repo |-> "None", error |-> "Repository not found or access denied."]
    ELSE [repo |-> "None", error |-> "Error accessing repository"]

check_repo_access(client, outcome) ==
    IF ~client
    THEN [repo |-> "None",
          error |-> "GitHub client is not initialized. Check GITHUB_TOKEN."]
    ELSE IF ~outcome.raised
    THEN [repo |-> "repo", error |-> "None"]
    ELSE IF "404" \in outcome.text
    THEN [repo |-> "None", error |-> "Repository not found or access denied."]
    ELSE IF "401" \in outcome.text
    THEN [repo |-> "None",
          error |-> "Authentication failed. Check your GitHub token."]
    ELSE [repo |-> "None", error |-> "Error accessing repository"]

\* get_repo and the listing of the root raised nothing
Granted == [raised |-> FALSE, text |-> {}]

\* lines 17-18: the requests check_repo_access makes, with what came back
AccessRequests(client, outcome) ==
    IF client
    THEN <<[to |-> "github", call |-> "check_repo_access", result |-> outcome]>>
    ELSE <<>>

-----------------------------------------------------------------------------
(* cogs/analysis_cog.py: the analyze command *)

\* files_to_analyze_detail[:20]
DetailLimit == 20

\* analyzed_files[:8]
ShownLimit == 8

Take(seq, n) == SubSeq(seq, 1, IF Len(seq) < n THEN Len(seq) ELSE n)

\* the snapshot entry behind a content item
IndexOf(content_file) ==
    CHOOSE i \in Entries : Pool[i].path = content_file.path

\* lines 76-82: the files with a supported extension, in traversal order
files_to_analyze_detail(all_repo_contents) ==
    SelectSeq(all_repo_contents,
              LAMBDA c : c.type = "file" /\ Supported(ExtOf(c.name)))

\* the value file_ext holds when the loop of line 85 runs: the one the loop
\* of line 77 assigned last
LastFileExt(all_repo_contents) ==
    ExtOf(all_repo_contents[Len(all_repo_contents)].name)

\* lines 87-88 raise: the bytes do not decode, or file_ext is no key of
\* supported_extensions
Raises(content_file, file_ext, b) ==
    IndexOf(content_file) \in b \/ ~Supported(file_ext)

\* lines 87-106
FileInfo(content_file, file_ext) ==
    LET file_content == FileText(content_file.path)
        language == LanguageOf(file_ext)
    IN  [name |-> content_file.name,
         path |-> content_file.path,
         language |-> language,
         analysis |-> Dispatch(file_ext, file_content, language),
         size |-> LineLength(Content(file_content))]

\* lines 85-119: the loop body appends, or the except clause logs
AnalyzeFiles(files, file_ext, b) ==
    LET kept == SelectSeq(files, LAMBDA c : ~Raises(c, file_ext, b))
    IN  [i \in DOMAIN kept |-> FileInfo(kept[i], file_ext)]

\* lines 109-116
IssueCount(analysis) ==
    LET n(key) == IF key \in DOMAIN analysis THEN Len(analysis[key]) ELSE 0
    IN  n("potential_issues") + n("unused_imports") + n("unused_functions")
        + n("suggestions")

RECURSIVE CountIssues(_)
CountIssues(files) ==
    IF files = <<>> THEN 0
    ELSE IssueCount(Head(files).analysis) + CountIssues(Tail(files))

Text(t) == [kind |-> "text", text |-> t]

\* lines 126-154
StructureEmbed(s, fw) ==
    [kind |-> "structure_embed",
     framework |-> IF fw = "None" THEN "Not detected" ELSE fw,
     issues |-> s.issues,
     recommendations |-> s.recommendations,
     best_practices |-> (fw # "None" /\ HasRecommendations(fw))]

\* lines 168-190: the first n entries of a list and the count of the rest
Shown(analysis, key, n) ==
    IF key \in DOMAIN analysis
    THEN [first |-> Take(analysis[key], n),
          more |-> IF Len(analysis[key]) > n THEN Len(analysis[key]) - n ELSE 0]
    ELSE [first |-> <<>>, more |-> 0]

\* lines 164-196
FileField(file_info) ==
    [name |-> file_info.name,
     language |-> file_info.language,
     potential_issues |-> Shown(file_info.analysis, "potential_issues", 3),
     unused_imports |-> Shown(file_info.analysis, "unused_imports", 5),
     unused_functions |-> Shown(file_info.analysis, "unused_functions", 5),
     suggestions |-> Shown(file_info.analysis, "suggestions", 3)]

\* lines 157-205
SummaryEmbed(files, total) ==
    [kind |-> "summary",
     files_analyzed |-> Len(files),
     total_issues |-> total,
     fields |-> [i \in DOMAIN Take(files, ShownLimit) |-> FileField(files[i])],
     note |-> Len(files) > ShownLimit]

\* structure: lines 326-365
ListLimit == 20

ProjectEmbed(s, fw) ==
    [kind |-> "structure",
     framework |-> IF fw = "None" THEN "Not detected" ELSE fw,
     files |-> Shown(s, "files", ListLimit),
     directories |-> Shown(s, "directories", ListLimit),
     issues |-> s.issues,
     recommendations |-> s.recommendations]

\* the entries the provider may fail on in one invocation
BadSets(r) == {b \in SUBSET r : Cardinality(b) <= MaxBad}

InitCommands ==
    /\ repo \in Repos
    /\ bad = {}
    /\ op = "init"
    /\ contents = <<>>
    /\ framework = "None"
    /\ structure = NoStructure
    /\ analyzed_files = <<>>
    /\ total_issues = 0
    /\ sent = <<>>
    /\ source = <<>>
    /\ finding = [info |-> "none"]
    /\ tasks = NoTasks
    /\ loop = IdleLoop
    /\ attachment = NoAttachment
    /\ GROQ_API_KEY = TRUE
    /\ github_client \in BOOLEAN
    /\ requests = <<>>
    /\ reply = NoReply

\* lines 25-27 / 287-289: "github.com" not in repo_url
RejectUrl(name, start) ==
    /\ op' = name
    /\ sent' = <<Text(start), Text("Please provide a valid GitHub repository URL")>>
    /\ UNCHANGED <<tasks, loop, attachment, provider, repo, bad, contents, framework, structure,
                   analyzed_files, total_issues, source, finding>>

\* lines 32-35 / 294-297: check_repo_access returned an error
RejectAccess(name, start) ==
    \E outcome \in AccessOutcomes :
        LET access == check_repo_access(github_client, outcome)
        IN  /\ access.error # "None"
            /\ op' = name
            /\ sent' = <<Text(start), Text(access.error)>>
            /\ reply' = access
            /\ requests' = requests \o AccessRequests(github_client, outcome)
            /\ UNCHANGED <<tasks, loop, attachment, GROQ_API_KEY, github_client,
                           repo, bad, contents, framework, structure,
                           analyzed_files, total_issues, source, finding>>

\* lines 59-61 / 318-320: the listing of the root raised
RejectBranch(name, start) ==
    /\ check_repo_access(github_client, Granted).error = "None"
    /\ op' = name
    /\ sent' = <<Text(start), Text("Error accessing branch or its contents")>>
    /\ reply' = check_repo_access(github_client, Granted)
    /\ requests' = requests \o AccessRequests(github_client, Granted)
                             \o <<ListRequest(<<>>, TRUE)>>
    /\ UNCHANGED <<tasks, loop, attachment, GROQ_API_KEY, github_client, repo,
                   bad, contents, framework, structure, analyzed_files,
                   total_issues, source, finding>>

\* analyze_repo, lines 37-205, once the root is listed; b are the entries
\* the provider fails on
AnalyzeListed(b) ==
    LET all_repo_contents == flatten_analyze(get_contents(repo, <<>>), repo, b)
        s == analyze_structure(all_repo_contents, "None")
        fw == detect_framework(all_repo_contents)
        files == Take(files_to_analyze_detail(all_repo_contents), DetailLimit)
        done == IF files = <<>> THEN <<>>
                ELSE AnalyzeFiles(files, LastFileExt(all_repo_contents), b)
        total == CountIssues(done)
        start == Text("Starting repository analysis...")
    IN  /\ check_repo_access(github_client, Granted).error = "None"
        /\ bad' = b
        /\ contents' = all_repo_contents
        /\ framework' = fw
        /\ structure' = IF fw # "None" THEN [s EXCEPT !.framework = fw] ELSE s
        /\ analyzed_files' = done
        /\ total_issues' = total
        /\ sent' = IF done = <<>>
                   THEN <<start, Text("No supported code files found in repository or too many files to analyze.")>>
                   ELSE <<start, StructureEmbed(s, fw), SummaryEmbed(done, total)>>
        /\ op' = "analyze"
        /\ reply' = check_repo_access(github_client, Granted)
        /\ requests' = requests \o AccessRequests(github_client, Granted)
                                 \o <<ListRequest(<<>>, FALSE)>>
                                 \o flatten_requests(get_contents(repo, <<>>), repo, b)
        /\ UNCHANGED <<tasks, loop, attachment, GROQ_API_KEY, github_client,
                       repo, source, finding>>

AnalyzeRepo ==
    \/ RejectUrl("analyze", "Starting repository analysis...")
    \/ RejectAccess("analyze", "Starting repository analysis...")
    \/ RejectBranch("analyze", "Starting repository analysis...")
    \/ \E b \in BadSets(repo) : AnalyzeListed(b)

\* structure, lines 299-365, once the root is listed
StructureListed(b) ==
    LET all_repo_contents == flatten_structure(get_contents(repo, <<>>), repo, b)
        s == analyze_structure(all_repo_contents, "None")
        fw == detect_framework(all_repo_contents)
    IN  /\ check_repo_access(github_client, Granted).error = "None"
        /\ bad' = b
        /\ contents' = all_repo_contents
        /\ framework' = fw
        /\ structure' = s
        /\ sent' = <<Text("Analyzing project structure..."), ProjectEmbed(s, fw)>>
        /\ op' = "structure"
        /\ reply' = check_repo_access(github_client, Granted)
        /\ requests' = requests \o AccessRequests(github_client, Granted)
                                 \o <<ListRequest(<<>>, FALSE)>>
                                 \o flatten_requests(get_contents(repo, <<>>), repo, b)
        /\ UNCHANGED <<tasks, loop, attachment, GROQ_API_KEY, github_client,
                       repo, analyzed_files, total_issues, source, finding>>

Structure ==
    \/ RejectUrl("structure", "Analyzing project structure...")
    \/ RejectAccess("structure", "Analyzing project structure...")
    \/ RejectBranch("structure", "Analyzing project structure...")
    \/ \E b \in BadSets(repo) : StructureListed(b)

NextCommands ==
    \/ op = "init" /\ AnalyzeRepo
    \/ op = "init" /\ Structure

SpecCommands == InitCommands /\ [][NextCommands]_vars

-----------------------------------------------------------------------------
(* Properties of the language analyzers and of the analyze and structure   *)
(* commands                                                                 *)

Analyzers == {"analyze_python_file", "analyze_java_file", "analyze_javascript_file"}

\* the list of a finding under a key, empty when the finding has no such key
ListOf(f, key) == IF key \in DOMAIN f THEN Range(f[key]) ELSE {}

\* C4: for every source text and every analyzer, unused_imports is a subset
\* of imports, unused_functions of functions, unused_methods of methods and
\* unused_variables of variables.
C4_UnusedWithinDefined ==
    op \in Analyzers =>
        /\ ListOf(finding, "unused_imports") \subseteq ListOf(finding, "imports")
        /\ ListOf(finding, "unused_functions") \subseteq ListOf(finding, "functions")
        /\ ListOf(finding, "unused_methods") \subseteq ListOf(finding, "methods")
        /\ ListOf(finding, "unused_variables") \subseteq ListOf(finding, "variables")

\* the results the analyzer of an extension can give for a text
OwnAnalysis(file_ext, file_content) ==
    IF file_ext = <<".","p","y">> THEN {analyze_python_file(file_content)}
    ELSE IF file_ext = <<".","j","a","v","a">> THEN {analyze_java_file(file_content)}
    ELSE IF file_ext \in JsExtensions
         THEN {analyze_javascript_file(file_content, l) :
                  l \in {"javascript", "typescript"}}
         ELSE {[info |-> LanguageOf(file_ext)]}

\* C3: in the analyze command every analyzed file carries the language tag
\* and the result of the analyzer that the registry gives for the file's own
\* extension, whatever other files the repository holds.
C3_OwnExtension ==
    op = "analyze" =>
        \A i \in DOMAIN analyzed_files :
            LET f == analyzed_files[i]
            IN  /\ f.language = LanguageOf(ExtOf(f.name))
                /\ f.analysis \in OwnAnalysis(ExtOf(f.name), FileText(f.path))

\* the structure report of a command, when one was sent
Reports == {m \in Range(sent) : m.kind \in {"structure_embed", "structure"}}

\* all files and directories of the snapshot
AllEntries == SelectSeq(Pool, LAMBDA e : \E i \in repo : Pool[i] = e)

\* C5: in analyze and structure, when the detected framework has an entry in
\* structure_recommendations and one of its recommended paths is contained
\* in no file or directory path of the repository, the report sent to the
\* user holds a recommendation naming that path.
C5_ReportRecommends ==
    (op \in {"analyze", "structure"} /\ framework \in FrameworksWithEntry) =>
        \A m \in Reports :
            \A r \in Range(Recommended(framework)) :
                IsMissing(r, AllEntries) =>
                    \E x \in Range(m.recommendations) : x.path = r

\* the files the analyze command selected for analysis
Selected == Take(files_to_analyze_detail(contents), DetailLimit)

\* the bytes of the file do not decode
DecodeFails(c) == IndexOf(c) \in bad

AnalyzedPaths == {analyzed_files[i].path : i \in DOMAIN analyzed_files}

\* C9: in the analyze command a selected file whose analysis fails is
\* recorded in the analyzed results with an error-only finding.
C9_FailureRecorded ==
    op = "analyze" =>
        \A c \in Range(Selected) :
            DecodeFails(c) =>
                \E i \in DOMAIN analyzed_files :
                    /\ analyzed_files[i].path = c.path
                    /\ "error" \in DOMAIN analyzed_files[i].analysis

\* C10: in the analyze command, when the analysis of a selected file fails,
\* every other selected file is in the analyzed results and the summary is
\* sent.
C10_BatchContinues ==
    op = "analyze" =>
        \A c \in Range(Selected) :
            DecodeFails(c) =>
                /\ \A g \in Range(Selected) :
                        (g # c /\ ~DecodeFails(g)) => g.path \in AnalyzedPaths
                /\ \E m \in Range(sent) : m.kind = "summary"

-----------------------------------------------------------------------------
(* The commands as coroutines on the single event loop that bot.py starts:  *)
(* a handler runs on the loop thread from one await to the next; at an      *)
(* await of the chat service it is suspended and the loop runs other        *)
(* tasks; a call of the synchronous client of a provider runs to its return *)
(* on the loop thread.                                                      *)

Await(what) == [kind |-> "await", what |-> what]

Call(what) == [kind |-> "call", what |-> what]

\* the awaits and the provider calls of each handler, on its longest path
Program(command) ==
    CASE command = "analyze" ->
            <<Await("ctx.send"), Call("check_repo_access"),
              Call("repo.get_contents"), Await("ctx.send"), Await("ctx.send")>>
      [] command = "ai-review" ->
            <<Await("ctx.send"), Call("check_repo_access"),
              Call("find_file_in_repo"), Call("repo.get_contents"),
              Await("ctx.typing"), Call("review_with_groq"), Await("ctx.send")>>
      [] command = "structure" ->
            <<Await("ctx.send"), Call("check_repo_access"),
              Call("repo.get_contents"), Await("ctx.send")>>
      [] command = "search" ->
            <<Await("ctx.send"), Call("check_repo_access"),
              Call("find_file_in_repo"), Call("repo.get_contents"),
              Await("ctx.send")>>
      [] command = "chat" ->
            <<Await("ctx.typing"), Call("chat_with_groq"), Await("ctx.send")>>

Commands == {"analyze", "ai-review", "structure", "search", "chat"}

InitLoop ==
    /\ tasks = NoTasks
    /\ loop = IdleLoop
    /\ attachment = NoAttachment
    /\ GROQ_API_KEY = TRUE
    /\ github_client = TRUE
    /\ requests = <<>>
    /\ reply = NoReply
    /\ repo = {}
    /\ bad = {}
    /\ op = "init"
    /\ contents = <<>>
    /\ framework = "None"
    /\ structure = NoStructure
    /\ analyzed_files = <<>>
    /\ total_issues = 0
    /\ sent = <<>>
    /\ source = <<>>
    /\ finding = [info |-> "none"]

Untouched ==
    UNCHANGED <<attachment, provider, repo, bad, op, contents, framework, structure, analyzed_files,
                total_issues, sent, source, finding>>

\* a user invokes a command: its handler is a new task, ready to run
Invoke(t, command) ==
    /\ tasks[t].state = "idle"
    /\ tasks' = [tasks EXCEPT ![t] = [command |-> command, pc |-> 1,
                                      state |-> "ready"]]
    /\ UNCHANGED loop
    /\ Untouched

\* the idle loop picks a ready task and runs it
Resume(t) ==
    /\ loop.task = 0
    /\ tasks[t].state = "ready"
    /\ tasks' = [tasks EXCEPT ![t].state = "running"]
    /\ loop' = [loop EXCEPT !.task = t]
    /\ Untouched

\* the next step of the running handler, if it has one
AtStep(t, kind) ==
    /\ loop.task = t
    /\ loop.call = "none"
    /\ tasks[t].pc \in DOMAIN Program(tasks[t].command)
    /\ Program(tasks[t].command)[tasks[t].pc].kind = kind

\* await ctx.send / async with ctx.typing(): the task is suspended and the
\* loop is free
Suspend(t) ==
    /\ AtStep(t, "await")
    /\ tasks' = [tasks EXCEPT ![t].state = "awaiting", ![t].pc = @ + 1]
    /\ loop' = IdleLoop
    /\ Untouched

\* the awaited request to the chat service completed
Completed(t) ==
    /\ tasks[t].state = "awaiting"
    /\ tasks' = [tasks EXCEPT ![t].state = "ready"]
    /\ UNCHANGED loop
    /\ Untouched

\* check_repo_access, repo.get_contents, find_file_in_repo, requests.post:
\* called on the loop thread, which stays in the call until it returns
CallProvider(t) ==
    /\ AtStep(t, "call")
    /\ loop' = [loop EXCEPT !.call = Program(tasks[t].command)[tasks[t].pc].what]
    /\ UNCHANGED tasks
    /\ Untouched

\* the provider answered, or the call failed: the handler goes on, on
\* failure to its last message
Returned(t) ==
    /\ loop.task = t
    /\ loop.call # "none"
    /\ \E ok \in BOOLEAN :
        tasks' = [tasks EXCEPT ![t].pc =
                     IF ok THEN @ + 1 ELSE Len(Program(tasks[t].command))]
    /\ loop' = [loop EXCEPT !.call = "none"]
    /\ Untouched

\* the handler returns
Finish(t) ==
    /\ loop.task = t
    /\ loop.call = "none"
    /\ tasks[t].pc > Len(Program(tasks[t].command))
    /\ tasks' = [tasks EXCEPT ![t].state = "done"]
    /\ loop' = IdleLoop
    /\ Untouched

\* a step of the handler of task t
Progress(t) ==
    Resume(t) \/ Suspend(t) \/ CallProvider(t) \/ Returned(t) \/ Finish(t)

NextLoop ==
    \E t \in Tasks :
        \/ \E command \in Commands : Invoke(t, command)
        \/ Resume(t)
        \/ Suspend(t)
        \/ Completed(t)
        \/ CallProvider(t)
        \/ Returned(t)
        \/ Finish(t)

SpecLoop == InitLoop /\ [][NextLoop]_vars

\* task t waits on a call to the repository or the completion provider
InProviderCall(t) == loop.task = t /\ loop.call # "none"

\* C8: while one command waits on a provider call, every other command that
\* is ready to run can take its next step.
C8_OthersProgress ==
    \A t \in Tasks :
        InProviderCall(t) =>
            \A u \in Tasks \ {t} :
                tasks[u].state = "ready" => ENABLED Progress(u)

-----------------------------------------------------------------------------
(* Properties of analyze_python_file *)

\* every item of the source is valid Python
ValidPython(src) == \A i \in DOMAIN src : src[i].ok

PyFields ==
    {"imports", "functions", "classes", "variables", "unused_imports",
     "unused_functions", "unused_variables", "potential_issues", "suggestions"}

\* C11: for a syntactically valid input analyze_python_file returns a finding
\* without error in which all nine fields are defined.
C11_AllFieldsDefined ==
    (op = "analyze_python_file" /\ ValidPython(source)) =>
        DOMAIN finding = PyFields

\* a valid text with an import and a function, analysed
C11_Witness ==
    /\ op = "analyze_python_file"
    /\ ValidPython(source)
    /\ "imports" \in DOMAIN finding
    /\ finding.imports # <<>>
    /\ finding.functions # <<>>

\* C12 as stated: for an input that fails to parse the finding has a
\* non-empty error, exactly one potential_issues entry, and every collection
\* field present and empty.
C12_FieldsPresentEmpty ==
    (op = "analyze_python_file" /\ ~ValidPython(source)) =>
        /\ "error" \in DOMAIN finding /\ finding.error # ""
        /\ Len(finding.potential_issues) = 1
        /\ \A k \in PyFields \ {"potential_issues"} :
              k \in DOMAIN finding /\ finding[k] = <<>>

\* C12 amended: for an input that fails to parse the finding has a non-empty
\* error, exactly one potential_issues entry, which describes the parse
\* error, and no other field: the collection fields are absent.
C12_ErrorOnly ==
    (op = "analyze_python_file" /\ ~ValidPython(source)) =>
        /\ DOMAIN finding = {"error", "potential_issues"}
        /\ finding.error # ""
        /\ finding.potential_issues = <<"Parsing error: SyntaxError">>

\* a text with an item that is not valid Python, analysed
C12_Witness ==
    /\ op = "analyze_python_file"
    /\ ~ValidPython(source)
    /\ Len(source) = 2
    /\ source[1].ok
    /\ "error" \in DOMAIN finding

\* the nodes of the tree of a valid source at the levels of a set
NodesAt(src, levels) ==
    UNION {Range(src[i].nodes[k]) :
             <<i, k>> \in {<<j, l>> \in (DOMAIN src) \X levels : l \in DOMAIN src[j].nodes}}

TreeNodes(src) == NodesAt(src, 1..10)

TopLevelFunctions(src) ==
    {n.name : n \in {m \in NodesAt(src, {1}) : m.type = "FunctionDef"}}

NestedFunctions(src) ==
    {n.name : n \in {m \in NodesAt(src, 2..10) : m.type = "FunctionDef"}}

Callees(src) ==
    {n.func : n \in {m \in TreeNodes(src) : m.type = "Call" /\ m.func # ""}}

IdentifierReads(src) ==
    {n.id : n \in {m \in TreeNodes(src) : m.type = "Name" /\ m.ctx = "Load"}}

ClassNames(src) ==
    {n.name : n \in {m \in TreeNodes(src) : m.type = "ClassDef"}}

OneFunction == <<PyItems[5]>>

\* C13: unused_functions is exactly the set of top-level function names that
\* are neither the callee of a call nor an identifier read anywhere in the
\* tree and are not a class name; a function that is only nested is never in
\* it; a file with the one never-called function foo gives functions {foo},
\* unused_functions {foo}, no unused import and no error.
C13_UnusedFunctions ==
    (op = "analyze_python_file" /\ ValidPython(source)) =>
        /\ Range(finding.unused_functions) =
              {f \in TopLevelFunctions(source) :
                  /\ f \notin Callees(source)
                  /\ f \notin IdentifierReads(source)
                  /\ f \notin ClassNames(source)}
        /\ Len(finding.unused_functions) =
              Cardinality(Range(finding.unused_functions))
        /\ \A f \in NestedFunctions(source) \ TopLevelFunctions(source) :
              f \notin Range(finding.unused_functions)
        /\ source = OneFunction =>
              /\ finding.functions = <<"foo">>
              /\ finding.unused_functions = <<"foo">>
              /\ finding.unused_imports = <<>>
              /\ "error" \notin DOMAIN finding

\* a top-level function with a nested one, never called: only the outer one
\* is reported
C13_Witness ==
    /\ op = "analyze_python_file"
    /\ ValidPython(source)
    /\ NestedFunctions(source) = {"bar"}
    /\ finding.functions = <<"foo", "bar">>
    /\ finding.unused_functions = <<"foo">>

-----------------------------------------------------------------------------
(* Properties of analyze_javascript_file *)

\* the occurrences of a name that define it as a function with a parameter
\* list: "function name(" and the method form "name(...) {"
DefiningOccurrence(content, k) ==
    \/ \E i \in 1..(k - 1) :
            content[i] = "function" /\ SkipWs1(content, i + 1) = k
    \/ /\ Tok(content, SkipWs(content, k + 1)) = "("
       /\ CloseParenThen(content, SkipWs(content, k + 1) + 1, "{") # 0

\* the name is followed by "(" at an occurrence other than its definition
CalledElsewhere(name, content) ==
    \E k \in DOMAIN content :
        /\ content[k] = name
        /\ SkipWs(content, k + 1) \in DOMAIN content
        /\ content[SkipWs(content, k + 1)] = "("
        /\ ~DefiningOccurrence(content, k)

\* the text 'var x = 1; console.log(x);' of the example, one statement a line
VarThenLog == <<JsItems[1], JsItems[2]>>

\* C14: unused_variables is exactly the extracted variables that are outside
\* the referenced identifiers and are not extracted function names;
\* unused_functions is exactly the extracted functions that are outside the
\* referenced identifiers and are followed by "(" nowhere else in the text;
\* 'var x = 1; console.log(x);' gets the block-scoping suggestion and the
\* console-usage issue, and x is not an unused variable.
C14_UnusedJs ==
    op = "analyze_javascript_file" =>
        LET content == Content(source)
            referenced == JsWords(content)
        IN  /\ finding.unused_variables =
                   SelectSeq(finding.variables,
                       LAMBDA n : n \notin referenced
                                  /\ n \notin Range(finding.functions))
            /\ finding.unused_functions =
                   SelectSeq(finding.functions,
                       LAMBDA n : n \notin referenced
                                  /\ ~CalledElsewhere(n, content))
            /\ source = VarThenLog =>
                   /\ "Consider using 'let' or 'const' instead of 'var' for better block scoping"
                          \in Range(finding.suggestions)
                   /\ "Console.log/error/warn statements found (consider removing or using a proper logging library in production)"
                          \in Range(finding.potential_issues)
                   /\ "x" \notin Range(finding.unused_variables)

-----------------------------------------------------------------------------
(* cogs/analysis_cog.py: the upload command *)

\* line 434: 1024 * 1024
MaxUploadSize == 1048576

\* the entries of a list an upload embed shows: [:5] and, for imports, [:10]
UploadShown == 5

UploadImportsShown == 10

\* the file names of the attachments
UploadNames ==
    { <<"a","p","p",".","p","y">>,
      <<"A","P","P",".","P","Y">>,
      <<"M","a","i","n",".","j","a","v","a">>,
      <<"s","e","r","v","e","r",".","j","s">>,
      <<"m","a","i","n",".","t","s">>,
      <<"V","i","e","w",".","t","s","x">>,
      <<"s","i","t","e",".","c","s","s">>,
      <<"n","o","t","e","s",".","t","x","t">>,
      <<"a","p","p",".","p","y",".","b","a","k">>,
      <<"M","a","k","e","f","i","l","e">> }

\* the sizes discord reports for them
UploadSizes == {1, MaxUploadSize - 1, MaxUploadSize, MaxUploadSize + 1}

Attachments ==
    {NoAttachment} \cup
    [filename : UploadNames, size : UploadSizes, decodes : BOOLEAN]

\* the text attachment.read() gives for each kind of file
AttachmentText(file_ext) ==
    CASE file_ext = <<".","p","y">> -> <<PyItems[1], PyItems[10]>>
      [] file_ext = <<".","j","a","v","a">> -> <<JavaItems[2], JavaItems[3]>>
      [] file_ext = <<".","j","s">> -> <<JsItems[1], JsItems[2]>>
      [] file_ext \in {<<".","t","s">>, <<".","t","s","x">>} -> <<JsItems[8]>>
      [] OTHER -> <<NotPython(<<"<", "html", ">">>)>>

\* lines 460-498
UploadEmbed(a, language, analysis) ==
    [kind |-> "file_embed",
     filename |-> a.filename,
     language |-> language,
     size |-> a.size,
     potential_issues |-> Shown(analysis, "potential_issues", UploadShown),
     suggestions |-> Shown(analysis, "suggestions", UploadShown),
     unused_imports |-> Shown(analysis, "unused_imports", UploadImportsShown),
     unused_functions |-> Shown(analysis, "unused_functions", UploadShown)]

InitUpload ==
    /\ attachment \in Attachments
    /\ op = "init"
    /\ repo = {}
    /\ bad = {}
    /\ contents = <<>>
    /\ framework = "None"
    /\ structure = NoStructure
    /\ analyzed_files = <<>>
    /\ total_issues = 0
    /\ sent = <<>>
    /\ source = <<>>
    /\ finding = [info |-> "none"]
    /\ tasks = NoTasks
    /\ loop = IdleLoop
    /\ GROQ_API_KEY = TRUE
    /\ github_client = TRUE
    /\ requests = <<>>
    /\ reply = NoReply

\* upload, lines 423-504
Upload ==
    LET file_ext == ExtOf(attachment.filename)
        content_str == AttachmentText(file_ext)
        language == LanguageOf(file_ext)
        analysis == Dispatch(file_ext, content_str, language)
    IN  /\ op = "init"
        /\ op' = "upload"
        /\ IF attachment = NoAttachment
           THEN /\ sent' = <<Text("Please attach a file to analyze")>>
                /\ UNCHANGED <<source, finding>>
           ELSE IF attachment.size > MaxUploadSize
           THEN /\ sent' = <<Text("File too large (max 1MB)")>>
                /\ UNCHANGED <<source, finding>>
           ELSE IF ~Supported(file_ext)
           THEN /\ sent' = <<[kind |-> "text", text |-> "Unsupported file type",
                               file_ext |-> file_ext]>>
                /\ UNCHANGED <<source, finding>>
           ELSE IF ~attachment.decodes
           THEN /\ sent' = <<Text("Error analyzing file")>>
                /\ UNCHANGED <<source, finding>>
           ELSE /\ source' = content_str
                /\ finding' = analysis
                /\ sent' = <<UploadEmbed(attachment, language, analysis)>>
        /\ UNCHANGED <<tasks, loop, provider, attachment, repo, bad, contents,
                       framework, structure, analyzed_files, total_issues>>

NextUpload == Upload

SpecUpload == InitUpload /\ [][NextUpload]_vars

-----------------------------------------------------------------------------
(* Properties of the dispatch and of the admission of files *)

AnySuggestion ==
    "Extensive use of 'any' type in TypeScript (consider more specific types for better type safety)"

\* a file name whose extension carries the typescript tag
IsTypescript(name) ==
    Supported(ExtOf(name)) /\ LanguageOf(ExtOf(name)) = "typescript"

\* the text holds the substring 'any'
HasAny(src) == \E t \in Range(Content(src)) : HoldsAny(t)

\* C15: a .ts or .tsx file whose text holds 'any', analyzed by the analyze
\* or the upload command, gets the typing-looseness suggestion in its finding.
C15_TypescriptRule ==
    /\ op = "analyze" =>
          \A i \in DOMAIN analyzed_files :
              (IsTypescript(analyzed_files[i].name)
               /\ HasAny(FileText(analyzed_files[i].path)))
              => AnySuggestion \in ListOf(analyzed_files[i].analysis, "suggestions")
    /\ (/\ op = "upload"
        /\ source # <<>>
        /\ IsTypescript(attachment.filename)
        /\ HasAny(source))
       => AnySuggestion \in ListOf(finding, "suggestions")

\* analyze reads a file into an analyzer only when its extension is supported
\* and it has at most 1,048,576 bytes
AnalyzeAdmits ==
    op = "analyze" =>
        \A i \in DOMAIN analyzed_files :
            /\ Supported(ExtOf(analyzed_files[i].name))
            /\ analyzed_files[i].size <= MaxUploadSize

\* upload reads an attachment into an analyzer only under the same two
\* conditions, and does so for a supported file of exactly 1,048,576 bytes
UploadAdmits ==
    op = "upload" =>
        /\ source # <<>> =>
              /\ Supported(ExtOf(attachment.filename))
              /\ attachment.size <= MaxUploadSize
        /\ (/\ attachment # NoAttachment
            /\ Supported(ExtOf(attachment.filename))
            /\ attachment.size = MaxUploadSize
            /\ attachment.decodes)
           => (source # <<>> /\ sent[1].kind = "file_embed")

\* C16: the upload and analyze commands analyze a file only if its
\* lower-cased extension is one of the 20 supported ones and its size is at
\* most 1,048,576 bytes; a supported file of exactly that size is accepted.
C16_Admission ==
    /\ Len(supported_extensions) = 20
    /\ AnalyzeAdmits
    /\ UploadAdmits

-----------------------------------------------------------------------------
(* core/analyzers.py: AICodeReviewer, the calls of the completion provider. *)
(* A string is the sequence of its characters.  A decoded JSON value is a   *)
(* record tagged with its type; Raise is an exception on its way up.        *)

JStr(chars) == [t |-> "str", s |-> chars]

JNull == [t |-> "null"]

JNum == [t |-> "num"]

JArr(items) == [t |-> "arr", a |-> items]

JObj(key, value) == [t |-> "obj", k |-> key, v |-> value]

JEmpty == [t |-> "obj", k |-> "", v |-> JNull]

Raise(chars) == [t |-> "raise", s |-> chars]

\* value[key] for a string key
Item(value, key) ==
    IF value.t = "raise" THEN value
    ELSE IF value.t = "obj" /\ value.k = key THEN value.v
    ELSE IF value.t = "obj" THEN Raise(<<"K","e","y","E","r","r","o","r">>)
    ELSE Raise(<<"T","y","p","e","E","r","r","o","r">>)

\* value[0]
First(value) ==
    IF value.t = "raise" THEN value
    ELSE IF value.t = "arr" /\ value.a # <<>> THEN value.a[1]
    ELSE IF value.t = "arr" THEN Raise(<<"I","n","d","e","x","E","r","r","o","r">>)
    ELSE IF value.t = "str" /\ value.s # <<>> THEN JStr(<<value.s[1]>>)
    ELSE IF value.t = "str" THEN Raise(<<"I","n","d","e","x","E","r","r","o","r">>)
    ELSE IF value.t = "obj" THEN Raise(<<"K","e","y","E","r","r","o","r">>)
    ELSE Raise(<<"T","y","p","e","E","r","r","o","r">>)

\* max_length = 2000
max_length == 2000

Letters == <<"a", "b", "c", "d", "e", "f", "g">>

\* a text of n characters
TextOf(n) == [i \in 1..n |-> Letters[(i % 7) + 1]]

\* the lengths of the texts the provider answers with
TextLengths ==
    {0, 1, max_length - 1, max_length, max_length + 1, 2 * max_length,
     2 * max_length + 1}

\* a well-formed answer: {"choices": [{"message": {"content": content}}]}
Answer(content) ==
    JObj("choices", JArr(<<JObj("message", JObj("content", content))>>))

\* what response.json() gives: well-formed answers, answers whose content is
\* no string, and bodies of another shape; Raise when the body is no JSON
Bodies ==
    {Answer(JStr(TextOf(n))) : n \in TextLengths}
    \cup {Answer(JNull), Answer(JNum)}
    \cup {Raise(<<"J","S","O","N","D","e","c","o","d","e","E","r","r","o","r">>), JEmpty, JObj("choices", JArr(<<>>)),
          JObj("choices", JArr(<<JEmpty>>)),
          JObj("choices", JArr(<<JObj("message", JEmpty)>>)),
          JObj("error", JStr(<<"b","a","d"," ","r","e","q","u","e","s","t">>))}

\* response.text of the answers with a status other than 200
ErrorTexts == {TextOf(0), <<"r","a","t","e"," ","l","i","m","i","t">>, TextOf(max_length)}

\* what requests.post does: it raises, or gives a response
PostOutcomes ==
    {[raised |-> TRUE, status_code |-> 0, json |-> JNull, text |-> <<"t","i","m","e","d"," ","o","u","t">>]}
    \cup {[raised |-> FALSE, status_code |-> 200, json |-> b, text |-> <<>>] :
              b \in Bodies}
    \cup {[raised |-> FALSE, status_code |-> c, json |-> JNull, text |-> x] :
              c \in {401, 500}, x \in ErrorTexts}

\* str(n) for a natural number
RECURSIVE Str(_)
Str(n) ==
    LET digit == <<"0", "1", "2", "3", "4", "5", "6", "7", "8", "9">>[(n % 10) + 1]
    IN  IF n < 10 THEN <<digit>> ELSE Str(n \div 10) \o <<digit>>

\* lines 442-449 and 479-486: the try block and its except clause
Completion(outcome) ==
    LET content == Item(Item(First(Item(outcome.json, "choices")), "message"),
                        "content")
    IN  IF outcome.raised
        THEN JStr(<<"E","r","r","o","r"," ","c","a","l","l","i","n","g"," ","G","r","o","q"," ","A","P","I",":"," ">> \o outcome.text)
        ELSE IF outcome.status_code = 200
        THEN IF content.t = "raise"
             THEN JStr(<<"E","r","r","o","r"," ","c","a","l","l","i","n","g"," ","G","r","o","q"," ","A","P","I",":"," ">> \o content.s)
             ELSE content
        ELSE JStr(<<"E","r","r","o","r",":"," ">> \o Str(outcome.status_code) \o <<" ","-"," ">>
                  \o outcome.text)

\* "Groq API key not configured"
NotConfigured ==
    <<"G","r","o","q"," ","A","P","I"," ","k","e","y"," ","n","o","t"," ","c","o","n","f","i","g","u","r","e","d">>

\* chat_with_groq without the test of lines 453-454
chat_with_groqMutant(key, outcome) ==
    [value |-> Completion(outcome), posts |-> <<[to |-> "groq", call |-> "post", result |-> outcome]>>]

\* review_with_groq, lines 405-449: what it returns and the requests it made
review_with_groq(key, outcome) ==
    IF ~key
    THEN [value |-> JStr(NotConfigured), posts |-> <<>>]
    ELSE [value |-> Completion(outcome), posts |-> <<[to |-> "groq", call |-> "post", result |-> outcome]>>]

\* chat_with_groq, lines 451-486
chat_with_groq(key, outcome) ==
    IF ~key
    THEN [value |-> JStr(NotConfigured), posts |-> <<>>]
    ELSE [value |-> Completion(outcome), posts |-> <<[to |-> "groq", call |-> "post", result |-> outcome]>>]

-----------------------------------------------------------------------------
(* The chat and ai-review commands *)

\* slices that leave out the characters after the last full one
SlicesMutant(text) ==
    [k \in 1..(Len(text) \div max_length) |->
        SubSeq(text, (k - 1) * max_length + 1, k * max_length)]

\* [text[i:i+max_length] for i in range(0, len(text), max_length)]
Slices(text) ==
    [k \in 1..((Len(text) + max_length - 1) \div max_length) |->
        SubSeq(text, (k - 1) * max_length + 1,
               IF k * max_length < Len(text) THEN k * max_length ELSE Len(text))]

\* the embeds of lines 257-273 and 29-45
Embeds(command, text) ==
    IF Len(text) > max_length
    THEN LET chunks == Slices(text)
         IN  [i \in DOMAIN chunks |->
                 [kind |-> "embed", command |-> command, part |-> i,
                  parts |-> Len(chunks), description |-> chunks[i]]]
    ELSE <<[kind |-> "embed", command |-> command, part |-> 0, parts |-> 0,
            description |-> text]>>

\* search_recursive that looks at the files of a listing before it goes
\* down into the directories
RECURSIVE search_recursiveMutant(_, _, _, _)
search_recursiveMutant(contents_list, filename, r, b) ==
    LET here == SelectSeq(contents_list,
                    LAMBDA i : Pool[i].type = "file" /\ Pool[i].name = filename)
        below == SelectSeq(contents_list,
                    LAMBDA i : Pool[i].type = "dir" /\ i \notin b /\
                        search_recursiveMutant(get_contents(r, Pool[i].path),
                                               filename, r, b) # <<>>)
    IN  IF here # <<>> THEN Pool[Head(here)].path
        ELSE IF below # <<>>
        THEN search_recursiveMutant(get_contents(r, Pool[Head(below)].path),
                                    filename, r, b)
        ELSE <<>>

\* find_file_in_repo, lines 142-164: the path of the first file of that name,
\* depth first, <<>> for None; b are the directories whose listing fails
RECURSIVE search_recursive(_, _, _, _)
search_recursive(contents_list, filename, r, b) ==
    IF contents_list = <<>> THEN <<>>
    ELSE LET i == Head(contents_list)
             result == IF Pool[i].type = "dir" /\ i \notin b
                       THEN search_recursive(get_contents(r, Pool[i].path),
                                             filename, r, b)
                       ELSE <<>>
         IN  IF Pool[i].type = "file" /\ Pool[i].name = filename
             THEN Pool[i].path
             ELSE IF result # <<>> THEN result
             ELSE search_recursive(Tail(contents_list), filename, r, b)

\* lines 159-164: None when the listing of the root raised
find_file_in_repo(r, filename, b, raised) ==
    IF raised THEN <<>>
    ELSE search_recursive(get_contents(r, <<>>), filename, r, b)

\* the calls of get_contents that search_recursive makes, in order: one for
\* every directory it comes to before it returns
RECURSIVE search_requests(_, _, _, _)
search_requests(contents_list, filename, r, b) ==
    IF contents_list = <<>> THEN <<>>
    ELSE LET i == Head(contents_list)
             rest == search_requests(Tail(contents_list), filename, r, b)
             sub_contents == get_contents(r, Pool[i].path)
         IN  IF Pool[i].type = "file" /\ Pool[i].name = filename
             THEN <<>>
             ELSE IF Pool[i].type # "dir" THEN rest
             ELSE IF i \in b THEN <<ListRequest(Pool[i].path, TRUE)>> \o rest
             ELSE <<ListRequest(Pool[i].path, FALSE)>>
                  \o search_requests(sub_contents, filename, r, b)
                  \o (IF search_recursive(sub_contents, filename, r, b) # <<>>
                      THEN <<>> ELSE rest)

\* the calls find_file_in_repo makes
find_requests(r, filename, b, raised) ==
    <<ListRequest(<<>>, raised)>> \o
    (IF raised THEN <<>>
     ELSE search_requests(get_contents(r, <<>>), filename, r, b))


\* the snapshots and file names of the reviews
ReviewRepos ==
    {r \in Repos : \A i \in r : Pool[i].name \in
        {<<"a","p","p",".","p","y">>, <<"r","e","a","d","m","e",".","m","d">>, <<"x",".","p","y">>}}

ReviewNames == {<<"a","p","p",".","p","y">>, <<"x",".","p","y">>}

InitProvider ==
    /\ GROQ_API_KEY \in BOOLEAN
    /\ github_client \in BOOLEAN
    /\ repo \in ReviewRepos
    /\ requests = <<>>
    /\ reply = NoReply
    /\ op = "init"
    /\ bad = {}
    /\ contents = <<>>
    /\ framework = "None"
    /\ structure = NoStructure
    /\ analyzed_files = <<>>
    /\ total_issues = 0
    /\ sent = <<>>
    /\ source = <<>>
    /\ finding = [info |-> "none"]
    /\ tasks = NoTasks
    /\ loop = IdleLoop
    /\ attachment = NoAttachment

\* chat, lines 15-49 of general_cog.py, with a message that is blank or not
ChatWithAi ==
    /\ op = "init"
    /\ op' = "chat"
    /\ \E blank \in BOOLEAN, outcome \in PostOutcomes :
        LET response == chat_with_groq(GROQ_API_KEY, outcome)
        IN  IF blank
            THEN /\ sent' = <<Text("Please provide a message to chat with the AI.")>>
                 /\ UNCHANGED <<requests, reply>>
            ELSE /\ reply' = response.value
                 /\ requests' = requests \o response.posts
                 /\ sent' = IF response.value.t = "str"
                            THEN Embeds("chat", response.value.s)
                            ELSE <<Text("Error getting AI response")>>
    /\ UNCHANGED <<tasks, loop, attachment, GROQ_API_KEY, github_client, repo,
                   bad, contents, framework, structure, analyzed_files,
                   total_issues, source, finding>>

\* a handler that goes on after a read that raised
ReadFailedMutant(read) == FALSE

\* lines 237-241 and 395-414: the except clause is taken when
\* repo.get_contents(file_path) raised
ReadFailed(read) == read.result.raised

\* ai-review, lines 211-277 of analysis_cog.py; raised: the listing of the
\* root raised in find_file_in_repo
AiReview ==
    /\ op = "init"
    /\ op' = "ai-review"
    /\ \E valid \in BOOLEAN, access \in AccessOutcomes, filename \in ReviewNames,
          b \in BadSets(repo), raised \in BOOLEAN, outcome \in PostOutcomes :
        LET start == Text("Starting AI code review...")
            checked == check_repo_access(github_client, access)
            file_path == find_file_in_repo(repo, filename, b, raised)
            found == find_requests(repo, filename, b, raised)
            read == ListRequest(file_path, \E i \in b : Pool[i].path = file_path)
            review == review_with_groq(GROQ_API_KEY, outcome)
        IN  IF ~valid
            THEN /\ sent' = <<start, Text("Please provide a valid GitHub repository URL")>>
                 /\ UNCHANGED <<requests, reply, bad>>
            ELSE IF checked.error # "None"
            THEN /\ sent' = <<start, Text(checked.error)>>
                 /\ requests' = requests \o AccessRequests(github_client, access)
                 /\ reply' = checked
                 /\ UNCHANGED bad
            ELSE IF file_path = <<>>
            THEN /\ sent' = <<start, Text("File not found in repository")>>
                 /\ requests' = requests \o AccessRequests(github_client, access)
                                \o found
                 /\ reply' = checked
                 /\ bad' = b
            ELSE IF ReadFailed(read)
            THEN /\ sent' = <<start, Text("Error reading file")>>
                 /\ requests' = requests \o AccessRequests(github_client, access)
                                \o found \o <<read>>
                 /\ reply' = checked
                 /\ bad' = b
            ELSE /\ reply' = review.value
                 /\ requests' = requests \o AccessRequests(github_client, access)
                                \o found \o <<read>>
                                \o review.posts
                 /\ bad' = b
                 /\ sent' = <<start>> \o
                        (IF review.value.t = "str"
                         THEN Embeds("ai-review", review.value.s)
                         ELSE <<Text("Error during AI review")>>)
    /\ UNCHANGED <<tasks, loop, attachment, GROQ_API_KEY, github_client, repo,
                   contents, framework, structure, analyzed_files,
                   total_issues, source, finding>>

NextProvider == ChatWithAi \/ AiReview

SpecProvider == InitProvider /\ [][NextProvider]_vars

-----------------------------------------------------------------------------
(* The search command, and the four commands that go to the repository *)

\* the file names asked for
SearchNames ==
    ReviewNames \cup {<<"r","e","a","d","m","e",".","m","d">>}

\* line 417: the message names the file that was asked for
NotFoundText(filename) ==
    [kind |-> "text", text |-> "File not found in repository",
     filename |-> filename]

\* lines 398-411: the embed of a file that was found
FoundEmbed(filename, file_path) ==
    [kind |-> "embed", command |-> "search", filename |-> filename,
     path |-> file_path]

\* search, lines 371-421 of analysis_cog.py
Search ==
    /\ op = "init"
    /\ op' = "search"
    /\ \E valid \in BOOLEAN, access \in AccessOutcomes, filename \in SearchNames,
          b \in BadSets(repo), raised \in BOOLEAN :
        LET start == Text("Searching...")
            checked == check_repo_access(github_client, access)
            file_path == find_file_in_repo(repo, filename, b, raised)
            found == find_requests(repo, filename, b, raised)
            read == ListRequest(file_path, \E i \in b : Pool[i].path = file_path)
        IN  IF ~valid
            THEN /\ sent' = <<start, Text("Please provide a valid GitHub repository URL")>>
                 /\ UNCHANGED <<requests, reply, bad>>
            ELSE IF checked.error # "None"
            THEN /\ sent' = <<start, Text(checked.error)>>
                 /\ requests' = requests \o AccessRequests(github_client, access)
                 /\ reply' = checked
                 /\ UNCHANGED bad
            ELSE /\ requests' = requests \o AccessRequests(github_client, access)
                                \o found
                                \o (IF file_path = <<>> THEN <<>> ELSE <<read>>)
                 /\ reply' = checked
                 /\ bad' = b
                 /\ sent' = <<start,
                              IF file_path = <<>>
                              THEN NotFoundText(filename)
                              ELSE IF ReadFailed(read) THEN Text("Error accessing file")
                              ELSE FoundEmbed(filename, file_path)>>
    /\ UNCHANGED <<tasks, loop, attachment, GROQ_API_KEY, github_client, repo,
                   contents, framework, structure, analyzed_files,
                   total_issues, source, finding>>

InitSteps == InitProvider

NextSteps ==
    \/ op = "init" /\ AnalyzeRepo
    \/ op = "init" /\ Structure
    \/ AiReview
    \/ Search

SpecSteps == InitSteps /\ [][NextSteps]_vars

-----------------------------------------------------------------------------
(* Properties of the provider functions *)

\* the last provider function that returned was a completion function
CompletionReplied == "t" \in DOMAIN reply

\* the last provider function that returned was check_repo_access
AccessReplied == "error" \in DOMAIN reply

\* C17: review_with_groq and chat_with_groq return a string in every case:
\* without a key, on a status other than 200, on a transport error and on a
\* 200 answer of any body.
C17_AlwaysString ==
    CompletionReplied => reply.t = "str"

\* C18: without GROQ_API_KEY no request goes to the completion provider and
\* the completion functions return the not-configured text; without a
\* repository client no request goes to the repository provider and
\* check_repo_access returns (None, not-initialized error).
C18_NoRequestWithoutCredential ==
    /\ ~GROQ_API_KEY =>
          /\ \A i \in DOMAIN requests : requests[i].to # "groq"
          /\ CompletionReplied => reply = JStr(NotConfigured)
    /\ ~github_client =>
          /\ \A i \in DOMAIN requests : requests[i].to # "github"
          /\ AccessReplied =>
                reply = [repo |-> "None",
                         error |-> "GitHub client is not initialized. Check GITHUB_TOKEN."]

\* chat answered without a key: the text came back and nothing was posted
C18_Witness ==
    /\ op = "chat"
    /\ ~GROQ_API_KEY
    /\ CompletionReplied
    /\ reply = JStr(NotConfigured)
    /\ requests = <<>>

\* the answer of the repository provider to the last call of check_repo_access
LastAccess ==
    LET calls == SelectSeq(requests, LAMBDA q : q.call = "check_repo_access")
    IN  calls[Len(calls)].result

\* the first message of each command that checks the repository
StartOf ==
    [analyze |-> "Starting repository analysis...",
     structure |-> "Analyzing project structure..."]

\* C19: check_repo_access returns a pair with exactly one of repo and error
\* set; the error is the not-initialized one without a client, else the
\* not-found one when the provider's error text holds 404, else the
\* authentication one when it holds 401, else the generic one; after a failed
\* access the command sends this error and does nothing more.
C19_AccessResult ==
    (AccessReplied /\ op \in DOMAIN StartOf) =>
        /\ (reply.repo = "None") # (reply.error = "None")
        /\ reply.error =
              (IF ~github_client
               THEN "GitHub client is not initialized. Check GITHUB_TOKEN."
               ELSE IF ~LastAccess.raised THEN "None"
               ELSE IF "404" \in LastAccess.text
               THEN "Repository not found or access denied."
               ELSE IF "401" \in LastAccess.text
               THEN "Authentication failed. Check your GitHub token."
               ELSE "Error accessing repository")
        /\ reply.error # "None" =>
              /\ sent = <<Text(StartOf[op]), Text(reply.error)>>
              /\ contents = <<>>
              /\ analyzed_files = <<>>

\* an error text with both 404 and 401 is reported as not found, and the
\* analyze command ends on that message
C19_Witness ==
    /\ op = "analyze"
    /\ AccessReplied
    /\ LastAccess.text = {"404", "401"}
    /\ reply = [repo |-> "None", error |-> "Repository not found or access denied."]
    /\ sent[2] = Text("Repository not found or access denied.")

-----------------------------------------------------------------------------
(* Properties of the chunks of a response *)

\* chat or ai-review got a string from the completion function and sent it
ResponseSent ==
    op \in {"chat", "ai-review"} /\ CompletionReplied /\ reply.t = "str"

\* the embeds of the response, in send order
ResponseEmbeds == SelectSeq(sent, LAMBDA m : m.kind = "embed")

\* their descriptions
Chunks == [i \in DOMAIN ResponseEmbeds |-> ResponseEmbeds[i].description]

\* what C20 says of every text but about empty chunks
ChunksLossless ==
    /\ Flatten(Chunks) = reply.s
    /\ \A i \in DOMAIN Chunks : Len(Chunks[i]) <= max_length
    /\ \A i \in 1..(Len(Chunks) - 1) : Len(Chunks[i]) = max_length
    /\ Len(reply.s) <= max_length =>
          /\ Len(Chunks) = 1
          /\ ResponseEmbeds[1].parts = 0

\* C20: the chunks sent by ai-review and chat concatenate in send order to
\* the response text, each has at most 2000 characters, each but the last
\* exactly 2000, none is empty, and a text of at most 2000 characters is
\* sent as one unsplit message.
C20_Chunks ==
    ResponseSent =>
        /\ ChunksLossless
        /\ \A i \in DOMAIN Chunks : Chunks[i] # <<>>

\* C20 as the code has it: no chunk of a non-empty text is empty, and the
\* empty text is sent as one message with an empty description.
C20_ChunksOfNonEmpty ==
    ResponseSent =>
        /\ ChunksLossless
        /\ reply.s # <<>> => \A i \in DOMAIN Chunks : Chunks[i] # <<>>
        /\ reply.s = <<>> => Chunks = << <<>> >>

\* a review of 4001 characters sent in three parts, the last of one character
C20_Witness ==
    /\ op = "ai-review"
    /\ ResponseSent
    /\ Len(reply.s) = 2 * max_length + 1
    /\ Len(Chunks) = 3
    /\ Len(Chunks[3]) = 1
    /\ ResponseEmbeds[3].part = 3

-----------------------------------------------------------------------------
(* Properties of the import lists *)

\* the names the import statements of a valid source introduce: the alias
\* when there is one, else the original name
ImportedNames(src) ==
    UNION {{IF a.asname # "" THEN a.asname ELSE a.name : a \in Range(n.names)} :
             n \in {m \in TreeNodes(src) : m.type \in {"Import", "ImportFrom"}}}

\* C21: analyze_python_file collects in imports every name an import
\* statement introduces, relative imports included, and unused_imports is
\* exactly the imported names that are never read as an identifier; a name
\* that is only assigned to is unused.
C21_UnusedImports ==
    (op = "analyze_python_file" /\ ValidPython(source)) =>
        /\ Range(finding.imports) = ImportedNames(source)
        /\ Range(finding.unused_imports) =
               ImportedNames(source) \ IdentifierReads(source)

-----------------------------------------------------------------------------
(* Properties of analyze_java_file *)

\* the lines of the source that define the method
DefinitionLines(name, lines) ==
    {i \in DOMAIN lines : name \in Range(SearchLine(lines[i], MethodMatch))}

\* the name stands right before an opening parenthesis in the line
NameThenParen(name, line) ==
    \E k \in DOMAIN line : line[k] = name /\ Tok(line, k + 1) = "("

\* C22: a method analyze_java_file found is left out of unused_methods
\* exactly when its name stands right before an opening parenthesis on a
\* line other than its definition line; a call statement on its own line and
\* a call through an object make it used.
C22_MethodUsed ==
    op = "analyze_java_file" =>
        LET lines == SplitLines(Content(source))
        IN  \A m \in Range(finding.methods) :
                m \notin Range(finding.unused_methods)
                <=> \E i \in DOMAIN lines :
                        /\ i \notin DefinitionLines(m, lines)
                        /\ NameThenParen(m, lines[i])

\* the imports whose last dotted segment stands as a whole word in the text
ConfirmedImports(imports, content) ==
    {i \in DOMAIN imports :
        SearchWholeWord(content, AfterLast(imports[i], "."))}

\* C23: unused_imports of analyze_java_file holds at most one entry, the
\* advisory, which names no import; it is there exactly when fewer imports
\* have their last dotted segment as a whole word in the text than were found.
C23_JavaAdvisory ==
    op = "analyze_java_file" =>
        /\ Len(finding.unused_imports) <= 1
        /\ \A e \in Range(finding.unused_imports) :
              e = ImportAdvisory /\ e \notin Range(finding.imports)
        /\ finding.unused_imports # <<>>
           <=> Cardinality(ConfirmedImports(finding.imports, Content(source)))
               < Len(finding.imports)

\* a named import and a wildcard import: one advisory for the two
C23_Witness ==
    /\ op = "analyze_java_file"
    /\ Len(finding.imports) = 2
    /\ Cardinality(ConfirmedImports(finding.imports, Content(source))) = 1
    /\ finding.unused_imports = <<ImportAdvisory>>

\* imp.split('.')[-1]
LastSegment(import) == AfterLast(import, ".")

\* a Java identifier: letters, digits, underscores and dollar signs, no digit
\* first
IsJavaIdentifier(segment) ==
    /\ segment # <<>>
    /\ \A k \in DOMAIN segment : IsWord(segment[k]) \/ segment[k] = "$"
    /\ segment[1] \notin DigitTokens

\* a word: letters, digits and underscores only
IsPlainWord(segment) == Len(segment) = 1 /\ IsWord(segment[1])

\* C27 as stated: when the last dotted segment of every import is an
\* identifier (no wildcard import), unused_imports of analyze_java_file is
\* empty, whether or not the names are used outside the import lines.
C27_IdentifierImports ==
    (/\ op = "analyze_java_file"
     /\ \A i \in DOMAIN finding.imports :
           IsJavaIdentifier(LastSegment(finding.imports[i])))
    => finding.unused_imports = <<>>

\* C27 amended: the same for imports whose last dotted segment is made of
\* letters, digits and underscores only.
C27_WordImports ==
    (/\ op = "analyze_java_file"
     /\ \A i \in DOMAIN finding.imports :
           IsPlainWord(LastSegment(finding.imports[i])))
    => finding.unused_imports = <<>>

\* a file that is nothing but the import of java.util.List: no advisory
C27_Witness ==
    /\ op = "analyze_java_file"
    /\ source = <<JavaItems[1]>>
    /\ Len(finding.imports) = 1
    /\ finding.unused_imports = <<>>

-----------------------------------------------------------------------------
(* detect_framework applied to listings with bare-name patterns *)

\* largest number of entries in such a listing
MaxListing == 4

Entry(path, type) == [name |-> basename(path), path |-> path, type |-> type]

\* entries whose paths hold the patterns Gemfile and artisan as a file name,
\* as the beginning of a file name and as a directory name
BarePool ==
    << Entry(<<"G","e","m","f","i","l","e">>, "dir"),
       Entry(<<"G","e","m","f","i","l","e">>, "file"),
       Entry(<<"G","e","m","f","i","l","e",".","l","o","c","k">>, "file"),
       Entry(<<"a","p","p">>, "dir"),
       Entry(<<"a","p","p","/","c","o","n","t","r","o","l","l","e","r","s">>, "dir"),
       Entry(<<"a","r","t","i","s","a","n">>, "dir"),
       Entry(<<"a","r","t","i","s","a","n">>, "file"),
       Entry(<<"c","o","m","p","o","s","e","r",".","j","s","o","n">>, "file"),
       Entry(<<"c","o","n","f","i","g">>, "dir"),
       Entry(<<"c","o","n","f","i","g","/","r","o","u","t","e","s",".","r","b">>, "file") >>

\* a tree: one entry for a path, and every entry below the root has its
\* directory in the listing
IsTree(chosen) ==
    /\ \A e, o \in chosen : e.path = o.path => e = o
    /\ \A e \in chosen :
          Contains(e.path, <<"/">>) =>
              \E d \in chosen : d.type = "dir" /\ d.path \o <<"/">> \o e.name = e.path

\* the listings: at most MaxListing entries, in pool order
Listings ==
    {SelectSeq(BarePool, LAMBDA e : e \in chosen) :
        chosen \in {c \in SUBSET Range(BarePool) :
                       Cardinality(c) <= MaxListing /\ IsTree(c)}}

InitDetect ==
    /\ contents \in Listings
    /\ op = "init"
    /\ repo = {}
    /\ bad = {}
    /\ framework = "None"
    /\ structure = NoStructure
    /\ analyzed_files = <<>>
    /\ total_issues = 0
    /\ sent = <<>>
    /\ source = <<>>
    /\ finding = [info |-> "none"]
    /\ tasks = NoTasks
    /\ loop = IdleLoop
    /\ attachment = NoAttachment
    /\ GROQ_API_KEY = TRUE
    /\ github_client = TRUE
    /\ requests = <<>>
    /\ reply = NoReply

\* detect_framework(repo_contents) on the listing
DetectListing ==
    /\ op = "init"
    /\ framework' = detect_framework(contents)
    /\ op' = "detect_framework"
    /\ UNCHANGED <<tasks, loop, attachment, provider, repo, bad, contents,
                   structure, analyzed_files, total_issues, sent, source,
                   finding>>

NextDetect == DetectListing

SpecDetect == InitDetect /\ [][NextDetect]_vars

\* the lower-cased paths of a listing, a directory written with the
\* separator after it
ListedPaths(c) ==
    {IF e.type = "dir" THEN Lower(e.path) \o <<"/">> ELSE Lower(e.path) :
        e \in Range(c)}

\* the pattern names a file or ends in a separator: it is matched as it is
MatchedAsIs(p) == EndsWith(p, "/") \/ Contains(basename(p), <<".">>)

\* the lower-cased pattern occurs in a path, and when it is a bare name the
\* separator follows the occurrence
MatchedIn(pattern, c) ==
    LET p == Lower(pattern)
    IN  \E path \in ListedPaths(c) :
            \E k \in 0..(Len(path) - Len(p)) :
                /\ SubSeq(path, k + 1, k + Len(p)) = p
                /\ MatchedAsIs(p)
                   \/ (k + Len(p) + 1 \in DOMAIN path /\ path[k + Len(p) + 1] = "/")

\* one for each pattern of the framework that is matched, whatever the
\* number of paths that hold it
MatchCount(fw, c) ==
    Cardinality({i \in DOMAIN PatternsOf(fw) : MatchedIn(PatternsOf(fw)[i], c)})

Detected(c) ==
    {k \in DOMAIN DeclarationOrder :
        /\ MatchCount(DeclarationOrder[k], c) >= 2
        /\ DeclarationOrder[k] = "Angular" => HasAngularJson(c)}

\* the files of the pool at the root of the tree
RootFiles == {e \in Range(BarePool) : e.type = "file" /\ ~Contains(e.path, <<"/">>)}

\* C24: detect_framework counts a pattern as matched exactly when its
\* lower-cased form occurs in a lower-cased path, a bare name (no trailing
\* separator, no dot in the base name) only where a separator follows it, so
\* a file named Gemfile or artisan does not match; each pattern counts once.
C24_BareNames ==
    op = "detect_framework" =>
        /\ framework = IF Detected(contents) = {} THEN "None"
                       ELSE DeclarationOrder[CHOOSE k \in Detected(contents) :
                                \A m \in Detected(contents) : k <= m]
        /\ \A e \in Range(contents) :
              (e.type = "file" /\ e.name \in {<<"G","e","m","f","i","l","e">>, <<"a","r","t","i","s","a","n">>})
              => ~Contains(Lower(e.path), normalized_pattern(e.name))
        /\ Range(contents) \subseteq RootFiles => framework = "None"

\* the files Gemfile, Gemfile.lock, artisan and composer.json: artisan does
\* not match and Laravel is not detected
C24_Witness ==
    /\ op = "detect_framework"
    /\ Range(contents) = RootFiles
    /\ framework = "None"

\* a directory named Gemfile next to config/routes.rb: Rails
C24_DirectoryWitness ==
    /\ op = "detect_framework"
    /\ \E e \in Range(contents) : e.type = "dir" /\ e.name = <<"G","e","m","f","i","l","e">>
    /\ framework = "Rails"

-----------------------------------------------------------------------------
(* Properties of analyze_javascript_file *)

\* the names of the functions and variables lists
JsDefined == ListOf(finding, "functions") \cup ListOf(finding, "variables")

JsUnused ==
    ListOf(finding, "unused_functions") \cup ListOf(finding, "unused_variables")

\* a name whose first character is a letter or an underscore
BeginsWithLetter(name) == name \notin DigitTokens

\* a name of the letters a-z and A-Z, digits and underscores that begins
\* with a letter or an underscore
IsAsciiIdentifier(name) == name \notin DigitTokens \cup NonAsciiTokens

\* C26, as stated: no extracted function or variable name that begins with
\* a letter or an underscore is in unused_functions or unused_variables,
\* whether or not it is used besides its own declaration.
C26_LetterNames ==
    op = "analyze_javascript_file" =>
        \A name \in JsDefined : BeginsWithLetter(name) => name \notin JsUnused

\* C26, amended: no extracted name that begins with a letter or an
\* underscore and consists of the letters a-z and A-Z, digits and
\* underscores only is in unused_functions or unused_variables, whether or
\* not it is used besides its own declaration.
C26_AsciiNames ==
    op = "analyze_javascript_file" =>
        \A name \in JsDefined : IsAsciiIdentifier(name) => name \notin JsUnused

\* const bar = () => 1; and nothing else: bar is extracted and not unused
C26_Witness ==
    /\ op = "analyze_javascript_file"
    /\ Content(source) = <<"const", " ", "bar", " ", "=", " ", "(", ")", " ",
                           "=>", " ", "1", ";">>
    /\ finding.functions = <<"bar">>
    /\ finding.unused_functions = <<>>
    /\ finding.unused_variables = <<>>

-----------------------------------------------------------------------------
(* Properties of the traversals of a repository *)

\* the calls of get_contents after the access check, in order
Listed == SelectSeq(requests, LAMBDA q : q.call = "get_contents")

\* the listing of the root was asked for and raised / gave the root
RootRaised == \E k \in DOMAIN Listed : Listed[k].path = <<>> /\ Listed[k].result.raised

RootListed == \E k \in DOMAIN Listed : Listed[k].path = <<>> /\ ~Listed[k].result.raised

\* directory j lies above entry i
Above(j, i) ==
    /\ Pool[j].type = "dir"
    /\ Len(Pool[j].path) < Len(Pool[i].path)
    /\ SubSeq(Pool[i].path, 1, Len(Pool[j].path) + 1) = Pool[j].path \o <<"/">>

\* every directory above entry i was listed
Reached(i) == \A j \in repo : Above(j, i) => j \notin bad

ReachedFiles == {Pool[i] : i \in {k \in repo : Pool[k].type = "file" /\ Reached(k)}}

ListedDirectories ==
    {Pool[i] : i \in {k \in repo : Pool[k].type = "dir" /\ Reached(k) /\ k \notin bad}}

\* the directories a traversal comes to
ReachedDirectories == {Pool[i].path : i \in {k \in repo : Pool[k].type = "dir" /\ Reached(k)}}

\* the search ended without a file
NotFound ==
    \E k \in DOMAIN sent :
        sent[k].kind = "text" /\ sent[k].text = "File not found in repository"

BranchError == \E k \in DOMAIN sent : sent[k] = Text("Error accessing branch or its contents")

\* C25: in every traversal a directory whose listing fails is skipped and
\* the traversal goes on with what follows it: analyze collects every file
\* of every listed directory, structure every such file and every listed
\* directory, each once, and a search that ends without a file has asked for
\* every directory whose parent was listed; only a failure to list the root
\* ends the command.
C25_SkipAndContinue ==
    /\ (op \in {"analyze", "structure"} /\ RootListed) =>
          /\ Range(contents) =
                IF op = "analyze" THEN ReachedFiles
                ELSE ReachedFiles \cup ListedDirectories
          /\ Len(contents) = Cardinality(Range(contents))
          /\ {Listed[k].path : k \in DOMAIN Listed} = {<<>>} \cup ReachedDirectories
          /\ ~BranchError
    /\ op \in {"analyze", "structure"} => (BranchError <=> RootRaised)
    /\ (op \in {"search", "ai-review"} /\ NotFound /\ RootListed) =>
          {Listed[k].path : k \in DOMAIN Listed} = {<<>>} \cup ReachedDirectories
    /\ (op \in {"search", "ai-review"} /\ RootRaised) =>
          NotFound /\ Len(Listed) = 1

\* the listing of readme.md failed and the search went on to x.py after it
C25_Witness ==
    /\ op = "search"
    /\ bad = {8}
    /\ repo = {8, 9, 17}
    /\ sent[2] = FoundEmbed(<<"x",".","p","y">>, <<"x",".","p","y">>)
    /\ Len(Listed) = 3

\* the same for the analyze command: x.py is collected
C25_AnalyzeWitness ==
    /\ op = "analyze"
    /\ bad = {8}
    /\ repo = {8, 9, 17}
    /\ contents = <<Pool[17]>>

-----------------------------------------------------------------------------
(* Properties of find_file_in_repo *)

\* the search command came to the call of find_file_in_repo
Searched == op = "search" /\ Listed # <<>>

\* the file name the search command was given
Asked == sent[2].filename

\* the entries of every listed directory, a directory before what is in it
\* and the entries of one directory in the order of the listing
DepthFirst == flatten_structure(get_contents(repo, <<>>), repo, bad)

\* the files named as asked, in that order; none when the root was not listed
Matches ==
    IF RootRaised THEN <<>>
    ELSE SelectSeq(DepthFirst, LAMBDA e : e.type = "file" /\ e.name = Asked)

\* C29: find_file_in_repo returns None exactly when no file of the given
\* name lies in a directory reached through listed directories, or the root
\* was not listed; otherwise it returns the path of the first such file in
\* depth-first listing order, and the base name of that path is the name
\* asked for.
C29_FirstMatch ==
    (Searched /\ "filename" \in DOMAIN sent[2]) =>
        /\ NotFound <=> Matches = <<>>
        /\ ~NotFound =>
              /\ sent[2].path = Matches[1].path
              /\ basename(sent[2].path) = Asked

\* readme.md is listed before x.py at the root and holds an x.py: the search
\* for x.py gives readme.md/x.py
C29_Witness ==
    /\ op = "search"
    /\ repo = {8, 9, 17}
    /\ bad = {}
    /\ sent[2] = FoundEmbed(<<"x",".","p","y">>,
                            <<"r","e","a","d","m","e",".","m","d","/","x",".","p","y">>)

\* the directory readme.md is no file named readme.md
C29_DirectoryWitness ==
    /\ op = "search"
    /\ repo = {8, 9, 17}
    /\ RootListed
    /\ sent[2] = NotFoundText(<<"r","e","a","d","m","e",".","m","d">>)

-----------------------------------------------------------------------------
(* Properties of the order of the steps *)

RepositoryCommands == {"analyze", "ai-review", "structure", "search"}

\* the command answered that the URL is no GitHub URL
UrlRejected == sent[2] = Text("Please provide a valid GitHub repository URL")

\* check_repo_access was called and returned an error: there is no client,
\* or the provider raised
AccessFailed ==
    \/ ~github_client /\ ~UrlRejected
    \/ \E k \in DOMAIN requests :
            requests[k].call = "check_repo_access" /\ requests[k].result.raised

\* the requests to the completion provider
Posts == SelectSeq(requests, LAMBDA q : q.to = "groq")

\* find_file_in_repo gave no path, or the read of the file raised
FileMissing ==
    \/ RootRaised
    \/ NotFound
    \/ Listed # <<>> /\ Listed[Len(Listed)].path # <<>>
                     /\ Listed[Len(Listed)].result.raised
                     /\ \E i \in repo : Pool[i].type = "file"
                                        /\ Pool[i].path = Listed[Len(Listed)].path

\* C30: in analyze, ai-review, structure and search no request goes to the
\* repository provider when the URL is rejected, nothing is listed or
\* searched after check_repo_access returned an error, ai-review posts to the
\* completion provider only after the file was found and read, and each of
\* these exits sends one error message after the first message and ends.
C30_StepOrder ==
    op \in RepositoryCommands =>
        /\ UrlRejected => requests = <<>> /\ Len(sent) = 2
        /\ AccessFailed =>
              /\ Listed = <<>> /\ Posts = <<>>
              /\ Len(sent) = 2
              /\ sent[2] = Text(reply.error)
              /\ contents = <<>>
        /\ (op = "ai-review" /\ Posts # <<>>) =>
              /\ requests[Len(requests)].to = "groq" /\ Len(Posts) = 1
              /\ RootListed
              /\ LET read == requests[Len(requests) - 1]
                 IN  /\ read.call = "get_contents"
                     /\ ~read.result.raised
                     /\ \E i \in repo : Pool[i].type = "file" /\ Pool[i].path = read.path
        /\ (op \in {"ai-review", "search"} /\ FileMissing) =>
              /\ Posts = <<>>
              /\ Len(sent) = 2
              /\ sent[2].kind = "text"
        /\ BranchError => Len(sent) = 2 /\ contents = <<>> /\ Len(Listed) = 1

\* ai-review found x.py, the read raised, and the command ended on the
\* message without a request to the completion provider
C30_Witness ==
    /\ op = "ai-review"
    /\ GROQ_API_KEY
    /\ bad = {17}
    /\ sent = <<Text("Starting AI code review..."), Text("Error reading file")>>
    /\ requests[Len(requests)] = ListRequest(<<"x",".","p","y">>, TRUE)

-----------------------------------------------------------------------------
(* Properties of the limits of the analyze command *)

\* the paths of a list of files, in order
PathsIn(files) == [i \in DOMAIN files |-> files[i].path]

\* the summaries among the messages
Summaries == {m \in Range(sent) : m.kind = "summary"}

\* C28: the analyze command analyzes the first 20 files with a supported
\* extension in traversal order and no more, the summary shows details for
\* at most the first 8 analyzed files, and total_issues is the sum over the
\* analyzed files of the lengths of potential_issues, unused_imports,
\* unused_functions and suggestions.
C28_Limits ==
    op = "analyze" =>
        /\ PathsIn(analyzed_files) = PathsIn(Selected)
        /\ Len(analyzed_files) <= DetailLimit
        /\ \A m \in Summaries :
              /\ Len(m.fields) <= ShownLimit
              /\ m.fields = [i \in DOMAIN m.fields |-> FileField(analyzed_files[i])]
        /\ total_issues = CountIssues(analyzed_files)

\* what holds of the limits: the analyzed files are among the selected ones
C28_WithinSelected ==
    op = "analyze" =>
        /\ Range(PathsIn(analyzed_files)) \subseteq Range(PathsIn(Selected))
        /\ Len(analyzed_files) <= DetailLimit
        /\ \A m \in Summaries :
              /\ Len(m.fields) <= ShownLimit
              /\ m.fields = [i \in DOMAIN m.fields |-> FileField(analyzed_files[i])]
        /\ total_issues = CountIssues(analyzed_files)

====
